---- MODULE Spec2Model ----
(***************************************************************************)
(* A model of the hdr-conversion repository: the ISO 21496-1 gain-map      *)
(* decode (hdrconv/convert.py, hdr_conversion/iso21496/calculate.py), the  *)
(* ICC tone curves and the matrix colour engine (exp/icc_inspect.py), the  *)
(* Ultra HDR container scan with its XMP metadata parser                   *)
(* (img_input/ultrahdr.py), the handler registry and format                *)
(* identification (hdr_conversion/io), the byte-level ICC parser, the      *)
(* Apple headroom reconstruction, the gain-map encode and its round trip,  *)
(* and the file handles of the readers and writers.                        *)
(*                                                                         *)
(* Real numbers are fixed-point integers in units of 1/ONE.  ONE is        *)
(* 255 * 32, so that an 8-bit code value divided by 255 and the dyadic     *)
(* fractions k/32 are exact.  numpy arrays are records [shape, at] whose   *)
(* "at" maps 0-based index tuples to values; numpy's broadcasting rule is  *)
(* modelled by BShape/Proj.                                                *)
(***************************************************************************)
EXTENDS Integers, Sequences, FiniteSets, TLC

VARIABLES
    g_op,       \* gain-map decode: which function has run ("none" before)
    g_base,     \* the baseline image handed to the decode
    g_gain,     \* the gain-map image handed to the decode
    g_meta,     \* the gain-map metadata handed to the decode
    g_out,      \* the array the decode returned
    t_pc,       \* tone curve: "start", "applied" (after apply_trc), "done"
    t_trc,      \* the TRC information dict
    t_v,        \* the value handed to apply_trc
    t_fwd,      \* apply_trc(t_v, t_trc)
    t_back,     \* inverse_trc(t_fwd, t_trc)
    e_pc,       \* colour engine: "new", "ready", "raised", "xyz", "done", "direct"
    e_profile,  \* the ICCProfileData fields the engine is built from
    e_engine,   \* the ColorEngine object
    e_rgb,      \* the RGB triple handed to rgb_to_xyz_matrix
    e_flag,     \* apply_trc_flag and apply_inverse_trc
    e_xyz,      \* what rgb_to_xyz_matrix returned, or the XYZ handed in
    e_back,     \* what xyz_to_rgb_matrix returned
    m_pc,       \* XMP parser: "start", "done"
    m_xmp,      \* the payload handed to parse_gain_map_metadata
    m_res,      \* what parse_gain_map_metadata returned, or the exception
    s_pc,       \* extract_ultrahdr_data: "scan", "finish", "done", "raised"
    s_pieces,   \* the byte strings the file was put together from
    s_data,     \* the bytes read from the file
    search_offset,
    extracted_images,
    gain_map_metadata,
    s_streams,  \* every jpeg_data the loop has cut out of data, in order
    s_ranges,   \* where each was cut: soi_pos and eoi_pos + 2
    s_parsed,   \* every call of parse_gain_map_metadata so far: payload, result
    s_res,      \* what extract_ultrahdr_data returned, or the exception
    a_pc,       \* extract_app_segments: "start", "APP1", "APP2", "done"
    a_pieces,   \* the segments the header of jpeg_data was put together from
    a_data,     \* jpeg_data
    a_limit,    \* search_limit
    a_offset,   \* offset
    a_segments, \* app_segments
    HANDLERS,   \* registry._HANDLERS: the dict as its items in insertion order
    r_log,      \* every handler register_handler was called with, in call order
    i_pc,       \* _identify_handler: "start", "loop", "done", "raised"
    i_stream,   \* the stream's content
    i_pos,      \* the stream's position
    original_pos,
    i_handlers, \* the values of the copy available_handlers() returned
    i_log,      \* r_log when that copy was taken
    i_next,     \* how many handlers the for loop has been through
    i_tried,    \* the handlers identify was called on, with the position at the call
    i_res,      \* what _identify_handler returned, or the exception
    c_pc,       \* _select_composer: "start", "done"
    c_container,\* the ImageContainer: its images, each with its image_type
    c_entry,    \* the container as it was at the call
    c_hint,     \* composer_hint
    c_res,      \* the class of the composer returned
    p_pc,       \* ICCParser: "new", "ready", "parsed", "raised"
    p_data,     \* self.data: the bytes of the profile file
    p_tags,     \* self.tags: the tag index, signature -> (offset, size)
    p_res,      \* what the constructor raised, then what parse() returned or raised
    h_op,       \* headroom decode: "none", then the implementation that ran
    h_base,     \* the SDR base image, 8-bit, (h, w, 3)
    h_gain,     \* the gain map, 8-bit, one sample per pixel
    h_headroom, \* the headroom
    h_out,      \* the linear HDR image returned
    n_op,       \* gain-map encode: "none", then "hdr_to_gainmap"
    n_hdr,      \* hdr["data"]: the linear HDR image, (h, w, 3)
    n_baseline, \* the baseline argument: an 8-bit image, or None
    n_gamma,    \* the gamma argument
    n_res,      \* the GainmapImage returned
    b_pc,       \* round trip: "container", "decoded", "encoded", "redecoded"
    b_container,\* the GainmapImage: baseline, gainmap, metadata
    b_hdr,      \* the first decode
    b_encoded,  \* the GainmapImage hdr_to_gainmap made of the first decode
    b_hdr2,     \* the decode of the re-encoded container
    f_call,     \* files: the read or write call in progress
    f_pc,       \* the index of its next step, 0 when idle
    f_status,   \* "idle", "running", "returned", "raised"
    f_open,     \* the file descriptors open in the process
    f_mine,     \* the descriptors this call has opened so far
    f_with,     \* the descriptors of the with-blocks the call is inside, innermost last
    f_exc,      \* the step that raised, "" if none
    u_op,       \* Ultra HDR decode: "none", "parsed", "colour_convertion"
    u_major,    \* the primary image, 8-bit, (h, w, 3)
    u_gainmap,  \* the gain-map image, 8-bit
    u_xmp,      \* the XMP packet of the gain-map stream
    u_metadata, \* what parse_gain_map_metadata made of it
    u_out,      \* the array colour_convertion returned
    r_pc,       \* registry module: "import" while it is loaded, then "ready"
    r_copy,     \* the dict an available_handlers() call returned, as its caller has it
    r_name,     \* the name of the last get_handler call
    r_seen,     \* how many register_handler calls had returned at that call
    r_got       \* what that call returned or raised

gvars == <<g_op, g_base, g_gain, g_meta, g_out>>

tvars == <<t_pc, t_trc, t_v, t_fwd, t_back>>

evars == <<e_pc, e_profile, e_engine, e_rgb, e_flag, e_xyz, e_back>>

mvars == <<m_pc, m_xmp, m_res>>

svars == <<s_pc, s_pieces, s_data, search_offset, extracted_images, gain_map_metadata,
           s_streams, s_ranges, s_parsed, s_res>>

avars == <<a_pc, a_pieces, a_data, a_limit, a_offset, a_segments>>

ivars == <<HANDLERS, r_log, i_pc, i_stream, i_pos, original_pos, i_handlers, i_log, i_next, i_tried, i_res>>

cvars == <<c_pc, c_container, c_entry, c_hint, c_res>>

pvars == <<p_pc, p_data, p_tags, p_res>>

hvars == <<h_op, h_base, h_gain, h_headroom, h_out>>

nvars == <<n_op, n_hdr, n_baseline, n_gamma, n_res>>

bvars == <<b_pc, b_container, b_hdr, b_encoded, b_hdr2>>

fvars == <<f_call, f_pc, f_status, f_open, f_mine, f_with, f_exc>>

uvars == <<u_op, u_major, u_gainmap, u_xmp, u_metadata, u_out>>

rvars == <<r_pc, r_copy, r_name, r_seen, r_got>>

vars == <<gvars, tvars, evars, mvars, svars, avars, ivars, cvars, pvars, hvars, nvars, bvars, fvars, uvars, rvars>>

\* for each component, the variables of all the others
g_others == <<tvars, evars, mvars, svars, avars, ivars, cvars, pvars, hvars, nvars, bvars, fvars, uvars, rvars>>

t_others == <<gvars, evars, mvars, svars, avars, ivars, cvars, pvars, hvars, nvars, bvars, fvars, uvars, rvars>>

e_others == <<gvars, tvars, mvars, svars, avars, ivars, cvars, pvars, hvars, nvars, bvars, fvars, uvars, rvars>>

m_others == <<gvars, tvars, evars, svars, avars, ivars, cvars, pvars, hvars, nvars, bvars, fvars, uvars, rvars>>

s_others == <<gvars, tvars, evars, mvars, avars, ivars, cvars, pvars, hvars, nvars, bvars, fvars, uvars, rvars>>

a_others == <<gvars, tvars, evars, mvars, svars, ivars, cvars, pvars, hvars, nvars, bvars, fvars, uvars, rvars>>

i_others == <<gvars, tvars, evars, mvars, svars, avars, cvars, pvars, hvars, nvars, bvars, fvars, uvars, rvars>>

c_others == <<gvars, tvars, evars, mvars, svars, avars, ivars, pvars, hvars, nvars, bvars, fvars, uvars, rvars>>

p_others == <<gvars, tvars, evars, mvars, svars, avars, ivars, cvars, hvars, nvars, bvars, fvars, uvars, rvars>>

h_others == <<gvars, tvars, evars, mvars, svars, avars, ivars, cvars, pvars, nvars, bvars, fvars, uvars, rvars>>

n_others == <<gvars, tvars, evars, mvars, svars, avars, ivars, cvars, pvars, hvars, bvars, fvars, uvars, rvars>>

b_others == <<gvars, tvars, evars, mvars, svars, avars, ivars, cvars, pvars, hvars, nvars, fvars, uvars, rvars>>

f_others == <<gvars, tvars, evars, mvars, svars, avars, ivars, cvars, pvars, hvars, nvars, bvars, uvars, rvars>>

u_others == <<gvars, tvars, evars, mvars, svars, avars, ivars, cvars, pvars, hvars, nvars, bvars, fvars, rvars>>

r_others == <<gvars, tvars, evars, mvars, svars, avars, ivars, cvars, pvars, hvars, nvars, bvars, fvars, uvars>>

-----------------------------------------------------------------------------
(* Fixed-point arithmetic.                                                 *)

ONE == 255 * 32

Half == ONE \div 2

Sixteenth == ONE \div 16

Abs(x) == IF x < 0 THEN -x ELSE x

Min2(a, b) == IF a < b THEN a ELSE b

Max2(a, b) == IF a > b THEN a ELSE b

\* a * b and a / b on fixed-point numbers
FMul(a, b) == (a * b) \div ONE

FDiv(a, b) == (a * ONE) \div b

FAdd(a, b) == a + b

FSub(a, b) == a - b

\* np.clip(x, lo, hi)
Clip(x, lo, hi) == IF x < lo THEN lo ELSE IF x > hi THEN hi ELSE x

\* an 8-bit code value as a float: astype(np.float32) / 255.0
Norm255(v) == (v * ONE) \div 255

Clip01(v) == Clip(v, 0, ONE)

RECURSIVE ISqrtBin(_, _, _)
ISqrtBin(n, lo, hi) ==
    IF hi - lo <= 1 THEN lo
    ELSE LET mid == (lo + hi) \div 2
         IN  IF mid * mid <= n THEN ISqrtBin(n, mid, hi) ELSE ISqrtBin(n, lo, mid)

\* floor(sqrt(n)) for 0 <= n < 2^30
ISqrt(n) == ISqrtBin(n, 0, 32768)

RECURSIVE Pow2(_)
Pow2(n) == IF n <= 0 THEN 1 ELSE 2 * Pow2(n - 1)

\* x ** e for x >= 0 and the exponents the inputs use: 0, 1/2, 1, 2
\* (Python's ** on floats; 0 ** 0 is 1).
FPow(x, e) ==
    CASE e = 0       -> ONE
      [] e = Half    -> ISqrt(x * ONE)
      [] e = ONE     -> x
      [] e = 2 * ONE -> FMul(x, x)
      [] OTHER       -> x

\* 2 ** f for 0 <= f < 1: exact at the quarters, linear between them
Exp2Frac(f) ==
    LET q    == ONE \div 4
        tab  == <<ONE, 9704, 11540, 13723, 2 * ONE>>
        k    == f \div q
        r    == f - k * q
    IN  tab[k + 1] + ((tab[k + 2] - tab[k + 1]) * r) \div q

\* np.exp2(x)
FExp2(x) ==
    LET n == x \div ONE
        f == x - n * ONE
    IN  IF n >= 0 THEN Exp2Frac(f) * Pow2(n) ELSE Exp2Frac(f) \div Pow2(-n)

-----------------------------------------------------------------------------
(* numpy arrays.                                                           *)

RECURSIVE Idx(_)
\* the index tuples of an array of the given shape
Idx(shape) ==
    IF shape = <<>> THEN {<<>>}
    ELSE {<<i>> \o r : i \in 0 .. (shape[1] - 1), r \in Idx(Tail(shape))}

\* the result of an operation numpy rejects (ValueError)
NpError == [shape |-> <<-1>>, at |-> <<>>]

IsError(a) == a.shape = <<-1>>

\* a shape padded on the left with 1s to n dimensions
PadShape(s, n) == [k \in 1 .. n |-> IF k <= n - Len(s) THEN 1 ELSE s[k - (n - Len(s))]]

BroadcastOk(s1, s2) ==
    LET n == Max2(Len(s1), Len(s2))
        a == PadShape(s1, n)
        b == PadShape(s2, n)
    IN  \A k \in 1 .. n : a[k] = b[k] \/ a[k] = 1 \/ b[k] = 1

BShape(s1, s2) ==
    LET n == Max2(Len(s1), Len(s2))
        a == PadShape(s1, n)
        b == PadShape(s2, n)
    IN  [k \in 1 .. n |-> IF a[k] = 1 THEN b[k] ELSE a[k]]

\* the index of operand `shape` that result index i reads
Proj(i, shape) ==
    LET off == Len(i) - Len(shape)
    IN  [k \in 1 .. Len(shape) |-> IF shape[k] = 1 THEN 0 ELSE i[k + off]]

\* a scalar binary operation of numpy, by name
Scalar2(op, a, b) ==
    CASE op = "mul" -> FMul(a, b)
      [] op = "add" -> FAdd(a, b)
      [] op = "sub" -> FSub(a, b)
      [] op = "pow" -> FPow(a, b)

\* an elementwise binary operation with broadcasting
NpBin(op, A, B) ==
    IF IsError(A) \/ IsError(B) \/ ~BroadcastOk(A.shape, B.shape) THEN NpError
    ELSE LET s == BShape(A.shape, B.shape)
         IN  [shape |-> s,
              at |-> [i \in Idx(s) |-> Scalar2(op, A.at[Proj(i, A.shape)], B.at[Proj(i, B.shape)])]]

\* a scalar unary operation of numpy, by name
Scalar1(op, a) ==
    CASE op = "norm255" -> Norm255(a)
      [] op = "clip01"  -> Clip01(a)
      [] op = "exp2"    -> FExp2(a)

\* an elementwise unary operation
NpMap(op, A) ==
    IF IsError(A) THEN NpError
    ELSE [shape |-> A.shape, at |-> [i \in Idx(A.shape) |-> Scalar1(op, A.at[i])]]

\* np.array(t) of a tuple or list of numbers: shape (len,)
NpArray1(t) == [shape |-> <<Len(t)>>, at |-> [i \in Idx(<<Len(t)>>) |-> t[i[1] + 1]]]

\* a[:, :, np.newaxis] of a 2-D array
NewAxis(A) ==
    [shape |-> A.shape \o <<1>>,
     at |-> [i \in Idx(A.shape \o <<1>>) |-> A.at[<<i[1], i[2]>>]]]

\* np.repeat(a, 3, axis=2) of an (h, w, 1) array
Repeat3(A) ==
    LET s == <<A.shape[1], A.shape[2], 3>>
    IN  [shape |-> s, at |-> [i \in Idx(s) |-> A.at[<<i[1], i[2], 0>>]]]

\* cv2.resize(src, (w, h), interpolation=INTER_LINEAR).  The inputs resize
\* only 1 x 1 sources, which bilinear interpolation replicates; a source of
\* one channel comes back 2-D, as cv2 drops a channel axis of length 1.
Resize(A, h, w) ==
    LET c == IF Len(A.shape) = 3 /\ A.shape[3] > 1 THEN A.shape[3] ELSE 0
        s == IF c = 0 THEN <<h, w>> ELSE <<h, w, c>>
    IN  [shape |-> s,
         at |-> [i \in Idx(s) |->
                   LET y == IF A.shape[1] = 1 THEN 0 ELSE i[1]
                       x == IF A.shape[2] = 1 THEN 0 ELSE i[2]
                   IN  IF Len(A.shape) = 2 THEN A.at[<<y, x>>]
                       ELSE IF c = 0 THEN A.at[<<y, x, 0>>]
                       ELSE A.at[<<y, x, i[3]>>]]]

-----------------------------------------------------------------------------
(* ISO 21496-1 gain-map decode.                                            *)

\* the five per-channel metadata values as numpy arrays
MetaArrays(metadata) ==
    [gainmap_min      |-> NpArray1(metadata.gainmap_min),
     gainmap_max      |-> NpArray1(metadata.gainmap_max),
     gainmap_gamma    |-> NpArray1(metadata.gainmap_gamma),
     baseline_offset  |-> NpArray1(metadata.baseline_offset),
     alternate_offset |-> NpArray1(metadata.alternate_offset)]

\* hdrconv/convert.py, gainmap_to_hdr: the data of the HDRImage it returns
gainmap_to_hdr(data) ==
    LET baseline == NpMap("norm255", data.baseline)
        gainmap0 == NpMap("norm255", data.gainmap)
        h        == baseline.shape[1]
        w        == baseline.shape[2]
        gainmap1 == IF <<gainmap0.shape[1], gainmap0.shape[2]>> # <<h, w>>
                    THEN Resize(gainmap0, h, w) ELSE gainmap0
        gainmap2 == IF Len(gainmap1.shape) = 2 THEN NewAxis(gainmap1) ELSE gainmap1
        gainmap3 == IF gainmap2.shape[3] = 1 THEN Repeat3(gainmap2) ELSE gainmap2
        m        == MetaArrays(data.metadata)
        gainmap4 == NpMap("clip01", gainmap3)
        gainmap_decoded ==
            NpBin("add",
                  NpBin("mul", NpBin("pow", gainmap4, m.gainmap_gamma),
                              NpBin("sub", m.gainmap_max, m.gainmap_min)),
                  m.gainmap_min)
        gainmap_linear == NpMap("exp2", gainmap_decoded)
    IN  NpBin("sub",
              NpBin("mul", gainmap_linear, NpBin("add", baseline, m.baseline_offset)),
              m.alternate_offset)

\* hdr_conversion/iso21496/calculate.py, to_alternate, without the clip of line 44
to_alternate_noclip(baseline_image, gainmap_image, gainmap_metadata) ==
    LET h        == baseline_image.shape[1]
        w        == baseline_image.shape[2]
        gainmap0 == IF <<gainmap_image.shape[1], gainmap_image.shape[2]>> # <<h, w>>
                    THEN Resize(gainmap_image, h, w) ELSE gainmap_image
        m        == MetaArrays(gainmap_metadata)
        gainmap2 == NpBin("pow", gainmap0, m.gainmap_gamma)
        gainmap3 == NpBin("add",
                          NpBin("mul", gainmap2, NpBin("sub", m.gainmap_max, m.gainmap_min)),
                          m.gainmap_min)
        gainmap_linear == NpMap("exp2", gainmap3)
    IN  NpBin("sub",
              NpBin("mul", gainmap_linear, NpBin("add", baseline_image, m.baseline_offset)),
              m.alternate_offset)

\* hdr_conversion/iso21496/calculate.py, to_alternate
to_alternate(baseline_image, gainmap_image, gainmap_metadata) ==
    LET h        == baseline_image.shape[1]
        w        == baseline_image.shape[2]
        gainmap0 == IF <<gainmap_image.shape[1], gainmap_image.shape[2]>> # <<h, w>>
                    THEN Resize(gainmap_image, h, w) ELSE gainmap_image
        m        == MetaArrays(gainmap_metadata)
        gainmap1 == NpMap("clip01", gainmap0)
        gainmap2 == NpBin("pow", gainmap1, m.gainmap_gamma)
        gainmap3 == NpBin("add",
                          NpBin("mul", gainmap2, NpBin("sub", m.gainmap_max, m.gainmap_min)),
                          m.gainmap_min)
        gainmap_linear == NpMap("exp2", gainmap3)
    IN  NpBin("sub",
              NpBin("mul", gainmap_linear, NpBin("add", baseline_image, m.baseline_offset)),
              m.alternate_offset)

-----------------------------------------------------------------------------
(* States in which a component is not in use.                              *)

GainIdle ==
    /\ g_op = "idle"
    /\ g_base = NpError
    /\ g_gain = NpError
    /\ g_meta = <<>>
    /\ g_out = NpError

\* None
None == <<>>

\* the result of a call: the value returned, or the message of the exception
Returned(v) == [err |-> "", val |-> v]

Raised(msg) == [err |-> msg, val |-> <<>>]

\* an XMP payload: whether the bytes are well-formed XML, and the attribute
\* lists of the rdf:Description elements under the root's rdf:RDF child, in
\* document order.  An attribute is [ns, name, value]; names and values are
\* sequences of characters.
Xmp(xml, descriptions) == [xml |-> xml, descriptions |-> descriptions]

NotXml == Xmp(FALSE, <<>>)

\* the empty dict
EmptyDict == <<>>

\* the truth value of a dict: not d
IsEmpty(d) == DOMAIN d = {}

MetaIdle ==
    /\ m_pc = "idle"
    /\ m_xmp = NotXml
    /\ m_res = Returned(EmptyDict)

ScanIdle ==
    /\ s_pc = "idle"
    /\ s_pieces = <<>>
    /\ s_data = <<>>
    /\ search_offset = 0
    /\ extracted_images = <<>>
    /\ gain_map_metadata = EmptyDict
    /\ s_streams = <<>>
    /\ s_ranges = <<>>
    /\ s_parsed = <<>>
    /\ s_res = Returned(EmptyDict)

AppIdle ==
    /\ a_pc = "idle"
    /\ a_pieces = <<>>
    /\ a_data = <<>>
    /\ a_limit = 0
    /\ a_offset = 0
    /\ a_segments = [APP1 |-> <<>>, APP2 |-> <<>>]

IdentifyIdle ==
    /\ i_pc = "idle"
    /\ HANDLERS = <<>>
    /\ r_log = <<>>
    /\ i_stream = 0
    /\ i_pos = 0
    /\ original_pos = 0
    /\ i_handlers = <<>>
    /\ i_log = <<>>
    /\ i_next = 0
    /\ i_tried = <<>>
    /\ i_res = Returned(None)

\* composer_hint: None, or a string
NoHint == [given |-> FALSE, name |-> ""]

Hint(name) == [given |-> TRUE, name |-> name]

ComposerIdle ==
    /\ c_pc = "idle"
    /\ c_container = [images |-> <<>>]
    /\ c_entry = [images |-> <<>>]
    /\ c_hint = NoHint
    /\ c_res = ""

ParserIdle ==
    /\ p_pc = "idle"
    /\ p_data = <<>>
    /\ p_tags = <<>>
    /\ p_res = Returned(None)

HeadroomIdle ==
    /\ h_op = "idle"
    /\ h_base = [shape |-> <<-1>>, at |-> <<>>]
    /\ h_gain = [shape |-> <<-1>>, at |-> <<>>]
    /\ h_headroom = 0
    /\ h_out = [shape |-> <<-1>>, at |-> <<>>]

\* baseline = None
NoBaseline == [dtype |-> "none", shape |-> <<-1>>, at |-> <<>>]

EncodeIdle ==
    /\ n_op = "idle"
    /\ n_hdr = [shape |-> <<-1>>, at |-> <<>>]
    /\ n_baseline = NoBaseline
    /\ n_gamma = 0
    /\ n_res = <<>>

RoundTripIdle ==
    /\ b_pc = "idle"
    /\ b_container = <<>>
    /\ b_hdr = [shape |-> <<-1>>, at |-> <<>>]
    /\ b_encoded = <<>>
    /\ b_hdr2 = [shape |-> <<-1>>, at |-> <<>>]

FilesIdle ==
    /\ f_call = ""
    /\ f_pc = 0
    /\ f_status = "idle"
    /\ f_open = {}
    /\ f_mine = {}
    /\ f_with = <<>>
    /\ f_exc = ""

ColourIdle ==
    /\ u_op = "idle"
    /\ u_major = [shape |-> <<-1>>, at |-> <<>>]
    /\ u_gainmap = [shape |-> <<-1>>, at |-> <<>>]
    /\ u_xmp = NotXml
    /\ u_metadata = <<>>
    /\ u_out = [shape |-> <<-1>>, at |-> <<>>]

RegistryIdle ==
    /\ r_pc = "idle"
    /\ r_copy = [is_registry |-> FALSE, called |-> FALSE, modified |-> FALSE, items |-> <<>>]
    /\ r_name = ""
    /\ r_seen = 0
    /\ r_got = [err |-> "", val |-> <<>>]

EngineIdle ==
    /\ e_pc = "idle"
    /\ e_profile = None
    /\ e_engine = None
    /\ e_rgb = <<0, 0, 0>>
    /\ e_flag = FALSE
    /\ e_xyz = Returned(None)
    /\ e_back = Returned(None)

-----------------------------------------------------------------------------
(* Tone reproduction curves (exp/icc_inspect.py).                          *)

\* a TRC information dict as _parse_trc builds it; type "" is the empty dict
Trc(type, gamma, function_type, params, values) ==
    [type |-> type, gamma |-> gamma, function_type |-> function_type,
     params |-> params, values |-> values]

\* apply_trc
apply_trc(value0, trc) ==
    LET value == Clip(value0, 0, ONE)
    IN  IF trc.type = "" \/ trc.type = "Linear" THEN value
        ELSE IF trc.type = "Gamma" THEN FPow(value, trc.gamma)
        ELSE IF trc.type = "Curve" THEN
            LET values == trc.values
                n      == Len(values)
            IN  IF n = 0 THEN value
                ELSE LET idx  == value * (n - 1)
                         i0   == idx \div ONE
                         i1   == Min2(i0 + 1, n - 1)
                         frac == idx - i0 * ONE
                     IN  FMul(values[i0 + 1], ONE - frac) + FMul(values[i1 + 1], frac)
        ELSE IF trc.type = "Parametric" THEN
            LET func_type == trc.function_type
                params    == trc.params
            IN  IF func_type = 0 /\ Len(params) >= 1 THEN FPow(value, params[1])
                ELSE IF func_type = 1 /\ Len(params) >= 3 THEN
                    LET gamma == params[1]
                        a     == params[2]
                        b     == params[3]
                    IN  IF value >= FDiv(-b, a) THEN FPow(FMul(a, value) + b, gamma)
                        ELSE 0
                ELSE IF func_type = 3 /\ Len(params) >= 5 THEN
                    LET gamma == params[1]
                        a     == params[2]
                        b     == params[3]
                        c     == params[4]
                        d     == params[5]
                    IN  IF value >= d THEN FPow(FMul(a, value) + b, gamma)
                        ELSE FMul(c, value)
                ELSE value
        ELSE value

\* inverse_trc
inverse_trc(value0, trc) ==
    LET value == Clip(value0, 0, ONE)
    IN  IF trc.type = "" \/ trc.type = "Linear" THEN value
        ELSE IF trc.type = "Gamma" THEN
            IF trc.gamma > 0 THEN FPow(value, FDiv(ONE, trc.gamma)) ELSE value
        ELSE IF trc.type = "Parametric" THEN
            LET func_type == trc.function_type
                params    == trc.params
            IN  IF func_type = 0 /\ Len(params) >= 1 THEN
                    IF params[1] > 0 THEN FPow(value, FDiv(ONE, params[1])) ELSE value
                ELSE IF func_type = 3 /\ Len(params) >= 5 THEN
                    LET gamma == params[1]
                        a     == params[2]
                        b     == params[3]
                        c     == params[4]
                        d     == params[5]
                        threshold == IF gamma > 0 THEN FPow(FMul(a, d) + b, gamma) ELSE 0
                    IN  IF value >= threshold THEN
                            IF a # 0 /\ gamma > 0
                            THEN FDiv(FPow(value, FDiv(ONE, gamma)) - b, a)
                            ELSE value
                        ELSE IF c # 0 THEN FDiv(value, c) ELSE value
                ELSE value
        ELSE value

\* the curves tried.  Exponents are 1 and 2 and values are quarters, for
\* which powers and roots are exact in fixed point.
LinearTrc == Trc("Linear", 0, 0, <<>>, <<>>)

EmptyTrc == Trc("", 0, 0, <<>>, <<>>)

GammaTrcs == {Trc("Gamma", g, 0, <<>>, <<>>) : g \in {0, ONE, 2 * ONE}}

Para0Trcs == {Trc("Parametric", 0, 0, <<g>>, <<>>) : g \in {ONE, 2 * ONE}}

\* type 1, Y = (aX + b)^g for X >= -b/a: (2, 1, 0) and (1, 1/2, 1/2)
Para1Trcs ==
    {Trc("Parametric", 0, 1, <<2 * ONE, ONE, 0>>, <<>>),
     Trc("Parametric", 0, 1, <<ONE, Half, Half>>, <<>>)}

\* type 3, Y = (aX + b)^g for X >= d and cX below, continuous at d:
\* (2, 1, 0, 1/2, 1/2) and (1, 1/2, 1/2, 3/2, 1/2)
Para3Trcs ==
    {Trc("Parametric", 0, 3, <<2 * ONE, ONE, 0, Half, Half>>, <<>>),
     Trc("Parametric", 0, 3, <<ONE, Half, Half, 3 * Half, Half>>, <<>>)}

CurveTrcs == {Trc("Curve", 0, 0, <<>>, <<0, ONE \div 4, ONE>>)}

OtherTrcs == {Trc("mft2", 0, 0, <<>>, <<>>), Trc("Parametric", 0, 2, <<ONE, ONE, 0, 0>>, <<>>)}

Trcs ==
    {LinearTrc, EmptyTrc} \cup GammaTrcs \cup Para0Trcs \cup Para1Trcs \cup Para3Trcs
        \cup CurveTrcs \cup OtherTrcs

\* the quarters of the unit interval, and one value on each side of it
TrcValues == {k * (ONE \div 4) : k \in -1 .. 5}

TrcIdle ==
    /\ t_pc = "idle"
    /\ t_trc = EmptyTrc
    /\ t_v = 0
    /\ t_fwd = 0
    /\ t_back = 0

\* every component but the named one is not in use
OthersIdle(c) ==
    /\ c = "gain" \/ GainIdle
    /\ c = "trc" \/ TrcIdle
    /\ c = "engine" \/ EngineIdle
    /\ c = "meta" \/ MetaIdle
    /\ c = "scan" \/ ScanIdle
    /\ c = "app" \/ AppIdle
    /\ c = "identify" \/ IdentifyIdle
    /\ c = "composer" \/ ComposerIdle
    /\ c = "parser" \/ ParserIdle
    /\ c = "headroom" \/ HeadroomIdle
    /\ c = "encode" \/ EncodeIdle
    /\ c = "roundtrip" \/ RoundTripIdle
    /\ c = "files" \/ FilesIdle
    /\ c = "colour" \/ ColourIdle
    /\ c = "registry" \/ RegistryIdle

TrcInit ==
    /\ OthersIdle("trc")
    /\ t_pc = "start"
    /\ t_trc \in Trcs
    /\ t_v \in TrcValues
    /\ t_fwd = 0
    /\ t_back = 0

\* a call apply_trc(t_v, t_trc)
ApplyTrc ==
    /\ t_pc = "start"
    /\ t_fwd' = apply_trc(t_v, t_trc)
    /\ t_pc' = "applied"
    /\ UNCHANGED <<t_trc, t_v, t_back, t_others>>

\* a call inverse_trc on the value apply_trc returned
InverseTrc ==
    /\ t_pc = "applied"
    /\ t_back' = inverse_trc(t_fwd, t_trc)
    /\ t_pc' = "done"
    /\ UNCHANGED <<t_trc, t_v, t_fwd, t_others>>

TrcNext == ApplyTrc \/ InverseTrc

TrcSpec == TrcInit /\ [][TrcNext]_vars

-----------------------------------------------------------------------------
(* C2.                                                                     *)

\* |a - b| <= num / den
Within(a, b, num, den) == Abs(a - b) * den <= num * ONE

\* the tone-curve variants the specification calls mandatory
MandatoryTrc(trc) ==
    \/ trc.type = "Linear"
    \/ trc.type = "Gamma" /\ trc.gamma > 0
    \/ trc.type = "Parametric" /\ trc.function_type \in {0, 1, 3}

\* C2: for every mandatory tone curve and every v in [0, 1],
\* inverse_trc(apply_trc(v, curve), curve) is within 1e-4 of v.
C2_RoundTrip ==
    (t_pc = "done" /\ MandatoryTrc(t_trc) /\ 0 <= t_v /\ t_v <= ONE) =>
        Within(t_back, t_v, 1, 10000)

\* the same without Parametric type 1, for which inverse_trc has no branch
TrcRoundTripImplemented ==
    (t_pc = "done" /\ MandatoryTrc(t_trc) /\ 0 <= t_v /\ t_v <= ONE
        /\ ~(t_trc.type = "Parametric" /\ t_trc.function_type = 1)) =>
        Within(t_back, t_v, 1, 10000)

-----------------------------------------------------------------------------
(* The matrix colour engine (exp/icc_inspect.py, ColorEngine).             *)

\* the cyclic successor of a row or column number of a 3 x 3 matrix
Nx(k) == (k % 3) + 1

\* the cofactor of M at (i, j)
Cofactor(M, i, j) ==
    FMul(M[Nx(i)][Nx(j)], M[Nx(Nx(i))][Nx(Nx(j))])
        - FMul(M[Nx(i)][Nx(Nx(j))], M[Nx(Nx(i))][Nx(j)])

Det(M) == FMul(M[1][1], Cofactor(M, 1, 1)) + FMul(M[1][2], Cofactor(M, 1, 2))
            + FMul(M[1][3], Cofactor(M, 1, 3))

\* np.linalg.inv of an invertible 3 x 3 matrix
Inv(M) == [i \in 1 .. 3 |-> [j \in 1 .. 3 |-> FDiv(Cofactor(M, j, i), Det(M))]]

\* M @ v
MatVec(M, v) ==
    [i \in 1 .. 3 |-> FMul(M[i][1], v[1]) + FMul(M[i][2], v[2]) + FMul(M[i][3], v[3])]

Identity3 == <<<<ONE, 0, 0>>, <<0, ONE, 0>>, <<0, 0, ONE>>>>

\* ColorEngine.__init__ when the colorant matrix is taken for the identity
ColorEngine_identity(chad, rgb_matrix, trc) ==
    [chad           |-> chad,
     chad_inv       |-> IF chad # None THEN Inv(chad) ELSE None,
     rgb_matrix     |-> IF rgb_matrix # None THEN rgb_matrix ELSE Identity3,
     rgb_matrix_inv |-> IF rgb_matrix # None THEN Inv(rgb_matrix) ELSE Identity3,
     trc            |-> trc]

\* ColorEngine.__init__: the fields of the object
ColorEngine(chad, rgb_matrix, trc) ==
    [chad           |-> chad,
     chad_inv       |-> IF chad # None THEN Inv(chad) ELSE None,
     rgb_matrix     |-> rgb_matrix,
     rgb_matrix_inv |-> IF rgb_matrix # None THEN Inv(rgb_matrix) ELSE None,
     trc            |-> trc]

\* ColorEngine.rgb_to_xyz_matrix
rgb_to_xyz_matrix(self, rgb, apply_trc_flag) ==
    IF self.rgb_matrix = None THEN Raised("RGB matrix not available")
    ELSE LET rgb_arr == IF apply_trc_flag /\ self.trc.type # ""
                        THEN [c \in 1 .. 3 |-> apply_trc(rgb[c], self.trc)]
                        ELSE rgb
             xyz_d50 == MatVec(self.rgb_matrix, rgb_arr)
         IN  IF self.chad_inv # None THEN Returned(MatVec(self.chad_inv, xyz_d50))
             ELSE Returned(xyz_d50)

\* ColorEngine.xyz_to_rgb_matrix
xyz_to_rgb_matrix(self, xyz_device, apply_inverse_trc) ==
    IF self.rgb_matrix_inv = None THEN Raised("RGB matrix not available")
    ELSE LET xyz_d50    == IF self.chad # None THEN MatVec(self.chad, xyz_device)
                           ELSE xyz_device
             rgb_linear == [c \in 1 .. 3 |->
                              Clip(MatVec(self.rgb_matrix_inv, xyz_d50)[c], 0, ONE)]
         IN  IF apply_inverse_trc /\ self.trc.type # ""
             THEN Returned([c \in 1 .. 3 |->
                              Clip(inverse_trc(rgb_linear[c], self.trc), 0, ONE)])
             ELSE Returned(rgb_linear)

\* colorant matrices: the identity; columns (1,0,0), (1/2,1/2,1/2), (0,0,1);
\* and the all-zero matrix of a profile whose XYZ tags are zero
ColorantMatrices ==
    {Identity3,
     <<<<ONE, Half, 0>>, <<0, Half, 0>>, <<0, Half, ONE>>>>,
     <<<<0, 0, 0>>, <<0, 0, 0>>, <<0, 0, 0>>>>}

\* chromatic-adaptation matrices: the identity and a shear
ChadMatrices == {Identity3, <<<<ONE, ONE, 0>>, <<0, ONE, 0>>, <<0, 0, ONE>>>>}

EngineTrcs ==
    {EmptyTrc,
     Trc("Gamma", 2 * ONE, 0, <<>>, <<>>),
     Trc("Parametric", 0, 1, <<2 * ONE, ONE, 0>>, <<>>),
     Trc("Parametric", 0, 3, <<2 * ONE, ONE, 0, Half, Half>>, <<>>),
     Trc("Curve", 0, 0, <<>>, <<0, ONE \div 4, ONE>>)}

\* the ICCProfileData fields ColorEngine is built from
Profiles ==
    [rgb_to_xyz_matrix : ColorantMatrices \cup {None},
     chad_matrix       : ChadMatrices \cup {None},
     trc_info          : EngineTrcs]

Quarter == ONE \div 4

RgbInputs ==
    {<<0, 0, 0>>, <<ONE, ONE, ONE>>, <<ONE, 0, 0>>, <<0, ONE, 0>>, <<0, 0, ONE>>,
     <<Half, Half, Half>>, <<Quarter, Half, 3 * Quarter>>, <<3 * Quarter, Quarter, ONE>>}

XyzInputs == {<<0, 0, 0>>, <<Half, Half, Half>>, <<ONE, Half, Quarter>>}

EngineInit ==
    /\ OthersIdle("engine")
    /\ e_pc = "new"
    /\ e_profile \in Profiles
    /\ e_engine = None
    /\ e_rgb \in RgbInputs
    /\ e_flag \in BOOLEAN
    /\ e_xyz = Returned(None)
    /\ e_back = Returned(None)

\* ColorEngine(icc_path, chad, rgb_matrix, trc); np.linalg.inv raises
\* LinAlgError on a singular matrix
Construct ==
    /\ e_pc = "new"
    /\ IF \/ e_profile.rgb_to_xyz_matrix # None /\ Det(e_profile.rgb_to_xyz_matrix) = 0
          \/ e_profile.chad_matrix # None /\ Det(e_profile.chad_matrix) = 0
       THEN e_pc' = "raised" /\ UNCHANGED e_engine
       ELSE /\ e_pc' = "ready"
            /\ e_engine' = ColorEngine(e_profile.chad_matrix, e_profile.rgb_to_xyz_matrix,
                                       e_profile.trc_info)
    /\ UNCHANGED <<e_profile, e_rgb, e_flag, e_xyz, e_back, e_others>>

\* engine.rgb_to_xyz_matrix(e_rgb, apply_trc_flag=e_flag)
RgbToXyz ==
    /\ e_pc = "ready"
    /\ e_xyz' = rgb_to_xyz_matrix(e_engine, e_rgb, e_flag)
    /\ e_pc' = "xyz"
    /\ UNCHANGED <<e_profile, e_engine, e_rgb, e_flag, e_back, e_others>>

\* engine.xyz_to_rgb_matrix on the XYZ that rgb_to_xyz_matrix returned
XyzToRgb ==
    /\ e_pc = "xyz"
    /\ e_xyz.err = ""
    /\ e_back' = xyz_to_rgb_matrix(e_engine, e_xyz.val, e_flag)
    /\ e_pc' = "done"
    /\ UNCHANGED <<e_profile, e_engine, e_rgb, e_flag, e_xyz, e_others>>

\* engine.xyz_to_rgb_matrix on an XYZ of the caller's
XyzToRgbDirect ==
    /\ e_pc = "ready"
    /\ \E xyz \in XyzInputs :
          /\ e_xyz' = Returned(xyz)
          /\ e_back' = xyz_to_rgb_matrix(e_engine, xyz, e_flag)
    /\ e_pc' = "direct"
    /\ UNCHANGED <<e_profile, e_engine, e_rgb, e_flag, e_others>>

EngineNext == Construct \/ RgbToXyz \/ XyzToRgb \/ XyzToRgbDirect

EngineSpec == EngineInit /\ [][EngineNext]_vars

-----------------------------------------------------------------------------
(* C3.                                                                     *)

BothMatricesPresent ==
    e_profile.rgb_to_xyz_matrix # None /\ e_profile.chad_matrix # None

\* C3: for a profile with both matrices present and rgb in [0,1]^3,
\* xyz_to_rgb_matrix(rgb_to_xyz_matrix(rgb, True), True) is within 1e-3 of
\* rgb in every channel.
C3_MatrixRoundTrip ==
    (e_pc = "done" /\ BothMatricesPresent /\ e_flag) =>
        /\ e_back.err = ""
        /\ \A c \in 1 .. 3 : Within(e_back.val[c], e_rgb[c], 1, 1000)

\* the same for the tone curves inverse_trc has a branch for
EngineRoundTripImplemented ==
    (e_pc = "done" /\ BothMatricesPresent /\ e_flag
        /\ e_profile.trc_info.type # "Curve"
        /\ ~(e_profile.trc_info.type = "Parametric" /\ e_profile.trc_info.function_type = 1)) =>
        /\ e_back.err = ""
        /\ \A c \in 1 .. 3 : Within(e_back.val[c], e_rgb[c], 1, 1000)

-----------------------------------------------------------------------------
(* C4.                                                                     *)

WithIdentityChad ==
    ColorEngine(Identity3, e_profile.rgb_to_xyz_matrix, e_profile.trc_info)

-----------------------------------------------------------------------------
(* The XMP gain-map metadata parser (img_input/ultrahdr.py).               *)

Digits == {"0", "1", "2", "3", "4", "5", "6", "7", "8", "9"}

DigitVal(c) ==
    CASE c = "0" -> 0 [] c = "1" -> 1 [] c = "2" -> 2 [] c = "3" -> 3 [] c = "4" -> 4
      [] c = "5" -> 5 [] c = "6" -> 6 [] c = "7" -> 7 [] c = "8" -> 8 [] c = "9" -> 9

\* str.lower() of one character
LowerChar(c) ==
    CASE c = "T" -> "t" [] c = "R" -> "r" [] c = "U" -> "u" [] c = "E" -> "e"
      [] c = "F" -> "f" [] c = "A" -> "a" [] c = "L" -> "l" [] c = "S" -> "s"
      [] OTHER -> c

\* str.lower()
Lower(s) == [k \in 1 .. Len(s) |-> LowerChar(s[k])]

\* s[from:] with a 1-based first position
Drop(s, from) == SubSeq(s, from, Len(s))

RECURSIVE LStrip(_)
LStrip(s) == IF s # <<>> /\ s[1] = " " THEN LStrip(Tail(s)) ELSE s

RECURSIVE RStrip(_)
RStrip(s) ==
    IF s # <<>> /\ s[Len(s)] = " " THEN RStrip(SubSeq(s, 1, Len(s) - 1)) ELSE s

\* str.strip(), which int() and float() apply to their argument
Strip(s) == RStrip(LStrip(s))

AllDigits(s) == \A k \in 1 .. Len(s) : s[k] \in Digits

RECURSIVE DigitsValue(_)
\* the number a string of digits denotes
DigitsValue(s) ==
    IF s = <<>> THEN 0 ELSE 10 * DigitsValue(SubSeq(s, 1, Len(s) - 1)) + DigitVal(s[Len(s)])

\* the 1-based position of the first character of s that is in set cs, or 0
FirstOf(s, cs) ==
    IF \E k \in 1 .. Len(s) : s[k] \in cs
    THEN CHOOSE k \in 1 .. Len(s) : s[k] \in cs /\ \A j \in 1 .. (k - 1) : s[j] \notin cs
    ELSE 0

\* the values a decoded attribute can have
IntValue(n) == [t |-> "int", n |-> n, e |-> 0, b |-> FALSE, s |-> <<>>]

RECURSIVE FloatValue(_, _)
\* the float n * 10^e, in lowest terms
FloatValue(n, e) ==
    IF n = 0 THEN [t |-> "float", n |-> 0, e |-> 0, b |-> FALSE, s |-> <<>>]
    ELSE IF n % 10 = 0 THEN FloatValue(n \div 10, e + 1)
    ELSE [t |-> "float", n |-> n, e |-> e, b |-> FALSE, s |-> <<>>]

BoolValue(b) == [t |-> "bool", n |-> 0, e |-> 0, b |-> b, s |-> <<>>]

StrValue(s) == [t |-> "str", n |-> 0, e |-> 0, b |-> FALSE, s |-> s]

\* a sign and the rest of a string
SignOf(s) == IF s # <<>> /\ s[1] = "-" THEN -1 ELSE 1

Unsigned(s) == IF s # <<>> /\ s[1] \in {"+", "-"} THEN Tail(s) ELSE s

\* the digit groups of a numeric literal: an underscore is allowed only
\* between two digits
Grouped(s) ==
    \A k \in 1 .. Len(s) :
        s[k] = "_" => k > 1 /\ k < Len(s) /\ s[k - 1] \in Digits /\ s[k + 1] \in Digits

IsNotUnderscore(c) == c # "_"

Ungroup(s) == SelectSeq(s, IsNotUnderscore)

\* int(value): surrounding whitespace, an optional sign, decimal digits
PyInt(value) ==
    LET body == Unsigned(Strip(value))
    IN  IF body # <<>> /\ Grouped(body) /\ AllDigits(Ungroup(body))
        THEN Returned(IntValue(SignOf(Strip(value)) * DigitsValue(Ungroup(body))))
        ELSE Raised("ValueError")

\* float(value) for a value that holds a point: surrounding whitespace, an
\* optional sign, digits with one point and at least one digit, an optional
\* exponent ("inf" and "nan" hold no point)
PyFloat(value) ==
    LET t        == Strip(value)
        body     == Ungroup(Unsigned(t))
        epos     == FirstOf(body, {"e", "E"})
        mant     == IF epos = 0 THEN body ELSE SubSeq(body, 1, epos - 1)
        expo     == IF epos = 0 THEN <<>> ELSE Drop(body, epos + 1)
        ppos     == FirstOf(mant, {"."})
        ipart    == IF ppos = 0 THEN mant ELSE SubSeq(mant, 1, ppos - 1)
        fpart    == IF ppos = 0 THEN <<>> ELSE Drop(mant, ppos + 1)
        expOk    == epos = 0 \/ (Unsigned(expo) # <<>> /\ AllDigits(Unsigned(expo)))
        mantOk   == AllDigits(ipart) /\ AllDigits(fpart) /\ Len(ipart) + Len(fpart) >= 1
        expVal   == IF epos = 0 THEN 0 ELSE SignOf(expo) * DigitsValue(Unsigned(expo))
    IN  IF Grouped(Unsigned(t)) /\ mantOk /\ expOk
        THEN Returned(FloatValue(SignOf(t) * DigitsValue(ipart \o fpart),
                                 expVal - Len(fpart)))
        ELSE Raised("ValueError")

Contains(s, c) == \E k \in 1 .. Len(s) : s[k] = c

\* lines 47-59 with the comparison of line 54 and 56 made without lower()
Coerce_case_sensitive(value) ==
    LET r == IF Contains(value, ".") THEN PyFloat(value) ELSE PyInt(value)
    IN  IF r.err = "" THEN r.val
        ELSE IF value = <<"t", "r", "u", "e">> THEN BoolValue(TRUE)
        ELSE IF value = <<"f", "a", "l", "s", "e">> THEN BoolValue(FALSE)
        ELSE StrValue(value)

\* lines 47-59: the value stored for an attribute
Coerce(value) ==
    LET r == IF Contains(value, ".") THEN PyFloat(value) ELSE PyInt(value)
    IN  IF r.err = "" THEN r.val
        ELSE IF Lower(value) = <<"t", "r", "u", "e">> THEN BoolValue(TRUE)
        ELSE IF Lower(value) = <<"f", "a", "l", "s", "e">> THEN BoolValue(FALSE)
        ELSE StrValue(value)

\* ET.fromstring: the parsed document, or ParseError
ET_fromstring(xmp_data) ==
    IF xmp_data.xml THEN Returned(xmp_data.descriptions) ELSE Raised("ParseError")

StartsWith(s, prefix) == Len(s) >= Len(prefix) /\ SubSeq(s, 1, Len(prefix)) = prefix

GainMapPrefix == <<"G", "a", "i", "n", "M", "a", "p">>

\* the exceptions the handler of line 65 catches, without ET.ParseError
CaughtByParser_noParseError == {"UnicodeDecodeError", "AttributeError"}

\* the exceptions the handler of line 65 catches
CaughtByParser == {"ParseError", "UnicodeDecodeError", "AttributeError"}

\* lines 23-63: the body of the try statement
ParseBody(xmp_data) ==
    LET root == ET_fromstring(xmp_data)
    IN  IF root.err # "" THEN root
        ELSE IF root.val = <<>> THEN Returned(EmptyDict)
        ELSE LET description == root.val[1]
                 hdrgm == {k \in 1 .. Len(description) : description[k].ns = "hdrgm"}
                 keys  == {description[k].name : k \in hdrgm}
                 metadata ==
                     [key \in keys |->
                        Coerce(description[CHOOSE k \in hdrgm :
                                             description[k].name = key].value)]
             IN  IF \E key \in keys : StartsWith(key, GainMapPrefix)
                 THEN Returned(metadata)
                 ELSE Returned(EmptyDict)

\* parse_gain_map_metadata: the dict returned, or the exception that escapes
parse_gain_map_metadata(xmp_data) ==
    LET r == ParseBody(xmp_data)
    IN  IF r.err \in CaughtByParser THEN Returned(EmptyDict) ELSE r

\* attribute names
N_GainMapMax == <<"G", "a", "i", "n", "M", "a", "p", "M", "a", "x">>

N_GainMapMin == <<"G", "a", "i", "n", "M", "a", "p", "M", "i", "n">>

N_GainMap == <<"G", "a", "i", "n", "M", "a", "p">>

N_GainMa == <<"G", "a", "i", "n", "M", "a">>

N_gainMapMax == <<"g", "a", "i", "n", "M", "a", "p", "M", "a", "x">>

N_XGainMap == <<"X", "G", "a", "i", "n", "M", "a", "p">>

N_Version == <<"V", "e", "r", "s", "i", "o", "n">>

Attr(ns, name, value) == [ns |-> ns, name |-> name, value |-> value]

\* the longest attribute value enumerated character by character
MaxValueLen == 3

ValueChars == {"0", "1", ".", "-", "e", " ", "_"}

RECURSIVE StringsUpTo(_)
StringsUpTo(n) ==
    IF n = 0 THEN {<<>>}
    ELSE LET shorter == StringsUpTo(n - 1)
         IN  shorter \cup {Append(v, c) : v \in shorter, c \in ValueChars}

Words ==
    { <<"T", "r", "u", "e">>, <<"t", "r", "u", "e">>, <<"T", "R", "U", "E">>,
      <<"t", "R", "u", "E">>, <<"F", "a", "l", "s", "e">>, <<"f", "a", "l", "s", "e">>,
      <<"F", "A", "L", "S", "E">>, <<"t", "r", "u", "e", "e">>, <<" ", "t", "r", "u", "e">>,
      <<"+", "1">>, <<"a", "b">>, <<"1", ".", "5", "e", "1">>, <<"2", ".", "5", "E", "-", "1">>,
      <<"1", "e", "5">>, <<"1", "2", "a">>, <<"1", ".", "2", ".", "3">>, <<"3", ".", "7", "5">> }

AttrValues == StringsUpTo(MaxValueLen) \cup Words

\* a few values of each kind, for the payloads that vary the structure
FewValues == { <<"1">>, <<"1", ".", "0">>, <<"T", "r", "u", "e">>, <<"a", "b">> }

AttrPool ==
    { Attr(ns, name, value) :
        ns \in {"hdrgm", "other"},
        name \in {N_GainMapMax, N_GainMap, N_GainMa, N_gainMapMax, N_XGainMap, N_Version},
        value \in {<<"1">>, <<"a", "b">>} }

\* attribute lists: an XML element never has two attributes of one name
AttrLists ==
    {<<>>} \cup {<<a>> : a \in AttrPool}
           \cup { <<Attr("hdrgm", N_GainMapMin, v), a>> : v \in FewValues, a \in AttrPool }
           \cup { <<a, Attr("hdrgm", N_GainMapMin, v)>> : v \in FewValues, a \in AttrPool }

XmpInputs ==
    {NotXml, Xmp(TRUE, <<>>)}
        \cup { Xmp(TRUE, <<(<<Attr("hdrgm", N_GainMapMax, v)>>)>>) : v \in AttrValues }
        \cup { Xmp(TRUE, <<d>>) : d \in AttrLists }
        \cup { Xmp(TRUE, <<(<<a>>), (<<b>>)>>) : a \in AttrPool, b \in AttrPool }
        \cup { Xmp(TRUE, <<(<<>>), (<<b>>)>>) : b \in AttrPool }

MetaInit ==
    /\ OthersIdle("meta")
    /\ m_pc = "start"
    /\ m_xmp \in XmpInputs
    /\ m_res = Returned(EmptyDict)

\* a call of parse_gain_map_metadata
ParseGainMapMetadata ==
    /\ m_pc = "start"
    /\ LET r == parse_gain_map_metadata(m_xmp)
       IN  /\ m_res' = r
           /\ m_pc' = IF r.err = "" THEN "done" ELSE "raised"
    /\ UNCHANGED <<m_xmp, m_others>>

MetaNext == ParseGainMapMetadata

MetaSpec == MetaInit /\ [][MetaNext]_vars

-----------------------------------------------------------------------------
(* C8 *)

HasGainMapNamespaceAttr(xmp) ==
    /\ xmp.xml
    /\ \E d \in 1 .. Len(xmp.descriptions) :
          \E k \in 1 .. Len(xmp.descriptions[d]) : xmp.descriptions[d][k].ns = "hdrgm"

\* C8: parse_gain_map_metadata never raises; it returns a result for every
\* payload (not XML, XML without rdf:Description, rdf:Description without an
\* attribute of the gain-map namespace), and the result is empty whenever the
\* payload has no attribute in the gain-map namespace.
C8_NeverRaises ==
    m_pc # "start" =>
        /\ m_pc = "done"
        /\ m_res.err = ""
        /\ (~HasGainMapNamespaceAttr(m_xmp) => IsEmpty(m_res.val))

\* a payload that is XML with an rdf:Description whose only attribute is of
\* another namespace has been parsed to the empty result
C8_Witness ==
    /\ m_pc = "done"
    /\ m_xmp = Xmp(TRUE, <<(<<Attr("other", N_GainMapMax, <<"1">>)>>)>>)
    /\ m_res.err = ""
    /\ IsEmpty(m_res.val)

-----------------------------------------------------------------------------
(* C10 *)

Blank(s) == \A k \in 1 .. Len(s) : s[k] = " "

\* a value without the blanks around it
Trimmed(v) ==
    IF Blank(v) THEN <<>>
    ELSE LET a == CHOOSE i \in 1 .. Len(v) : v[i] # " " /\ Blank(SubSeq(v, 1, i - 1))
             b == CHOOSE j \in 1 .. Len(v) : v[j] # " " /\ Blank(SubSeq(v, j + 1, Len(v)))
         IN  SubSeq(v, a, b)

\* an optional sign and digits
LooksLikeInteger(v) ==
    LET d == Unsigned(Trimmed(v))
    IN  d # <<>> /\ Grouped(d) /\ AllDigits(Ungroup(d))

IntegerOf(v) == SignOf(Trimmed(v)) * DigitsValue(Ungroup(Unsigned(Trimmed(v))))

ExponentOk(x) ==
    \/ x = <<>>
    \/ /\ x[1] \in {"e", "E"}
       /\ Unsigned(Tail(x)) # <<>>
       /\ AllDigits(Unsigned(Tail(x)))

\* d[p] is the point and d[q] the last character of the mantissa
IsDecimalSplit(d, p, q) ==
    /\ p <= q
    /\ q >= 2
    /\ d[p] = "."
    /\ \A k \in 1 .. q : k # p => d[k] \in Digits
    /\ ExponentOk(SubSeq(d, q + 1, Len(d)))

\* an optional sign, digits around one point, an optional exponent
LooksLikeDecimal(v) ==
    LET d == Ungroup(Unsigned(Trimmed(v)))
    IN  /\ Grouped(Unsigned(Trimmed(v)))
        /\ \E p \in 1 .. Len(d), q \in 1 .. Len(d) : IsDecimalSplit(d, p, q)

DecimalOf(v) ==
    LET d  == Ungroup(Unsigned(Trimmed(v)))
        pq == CHOOSE pq \in (1 .. Len(d)) \X (1 .. Len(d)) : IsDecimalSplit(d, pq[1], pq[2])
        p  == pq[1]
        q  == pq[2]
        x  == SubSeq(d, q + 1, Len(d))
        ex == IF x = <<>> THEN 0 ELSE SignOf(Tail(x)) * DigitsValue(Unsigned(Tail(x)))
    IN  FloatValue(SignOf(Trimmed(v)) * DigitsValue(SubSeq(d, 1, p - 1) \o SubSeq(d, p + 1, q)),
                   ex - (q - p))

IsTrueWord(v) ==
    /\ Len(v) = 4
    /\ v[1] \in {"t", "T"} /\ v[2] \in {"r", "R"} /\ v[3] \in {"u", "U"} /\ v[4] \in {"e", "E"}

IsFalseWord(v) ==
    /\ Len(v) = 5
    /\ v[1] \in {"f", "F"} /\ v[2] \in {"a", "A"} /\ v[3] \in {"l", "L"}
    /\ v[4] \in {"s", "S"} /\ v[5] \in {"e", "E"}

CoercionRule(v) ==
    IF LooksLikeInteger(v) THEN IntValue(IntegerOf(v))
    ELSE IF LooksLikeDecimal(v) THEN DecimalOf(v)
    ELSE IF IsTrueWord(v) THEN BoolValue(TRUE)
    ELSE IF IsFalseWord(v) THEN BoolValue(FALSE)
    ELSE StrValue(v)

-----------------------------------------------------------------------------
(* The Ultra HDR container scan (img_input/ultrahdr.py).  Bytes are the     *)
(* integers 0..255 and offsets count from 0 as in the code.                 *)

\* a search that returns the highest offset at which sub occurs
Find_last(bytes, sub, start, end) ==
    LET last  == Min2(end, Len(bytes)) - Len(sub)
        found == { q \in Max2(start, 0) .. last : SubSeq(bytes, q + 1, q + Len(sub)) = sub }
    IN  IF found = {} THEN -1
        ELSE CHOOSE q \in found : \A r \in found : q >= r

\* bytes.find(sub, start, end): the lowest offset in start..end-len(sub) at
\* which sub occurs, or -1
Find(bytes, sub, start, end) ==
    LET last  == Min2(end, Len(bytes)) - Len(sub)
        found == { q \in Max2(start, 0) .. last : SubSeq(bytes, q + 1, q + Len(sub)) = sub }
    IN  IF found = {} THEN -1
        ELSE CHOOSE q \in found : \A r \in found : q <= r

\* bytes[from:to]
Slice(bytes, from, to) == SubSeq(bytes, from + 1, Min2(to, Len(bytes)))

start_marker == <<255, 216>>

end_marker == <<255, 217>>

sos_marker == <<255, 218>>

app1_marker == <<255, 225>>

app2_marker == <<255, 226>>

\* int.from_bytes of two bytes, big-endian
FromBytes(two) == two[1] * 256 + two[2]

RECURSIVE FindSegments(_, _, _, _)
\* lines 93-115: the payloads of the segments of one marker found from offset
FindSegments(jpeg_data, marker_bytes, offset, search_limit) ==
    LET pos == Find(jpeg_data, marker_bytes, offset, search_limit)
    IN  IF pos = -1 THEN <<>>
        ELSE LET payload_start_pos == pos + 4
                 payload_length ==
                     IF pos + 4 <= Len(jpeg_data)
                     THEN FromBytes(Slice(jpeg_data, pos + 2, pos + 4)) - 2
                     ELSE 0
                 here ==
                     IF /\ pos + 4 <= Len(jpeg_data)
                        /\ payload_length > 0
                        /\ payload_start_pos + payload_length <= Len(jpeg_data)
                     THEN << Slice(jpeg_data, payload_start_pos,
                                   payload_start_pos + payload_length) >>
                     ELSE <<>>
             IN  here \o FindSegments(jpeg_data, marker_bytes,
                                      pos + Len(marker_bytes), search_limit)

\* extract_app_segments
extract_app_segments(jpeg_data) ==
    LET sos_pos == Find(jpeg_data, sos_marker, 0, Len(jpeg_data))
        search_limit == IF sos_pos # -1 THEN sos_pos ELSE Len(jpeg_data)
    IN  [ APP1 |-> FindSegments(jpeg_data, app1_marker, 0, search_limit),
          APP2 |-> FindSegments(jpeg_data, app2_marker, 0, search_limit) ]

\* the XMP packets the files of the model carry
DocG ==
    Xmp(TRUE, << << Attr("hdrgm", N_Version, <<"1", ".", "0">>),
                    Attr("hdrgm", N_GainMapMax, <<"3", ".", "7", "5">>) >> >>)

DocH == Xmp(TRUE, << << Attr("hdrgm", N_GainMapMax, <<"1">>) >> >>)

DocV == Xmp(TRUE, << << Attr("hdrgm", N_Version, <<"1", ".", "0">>) >> >>)

DocS ==
    Xmp(TRUE, << << Attr("hdrgm", N_Version, <<"1", ".", "0">>) >>,
                 << Attr("hdrgm", N_GainMapMax, <<"1">>) >> >>)

\* the bytes that stand for each packet
BytesG == <<71>>

BytesH == <<72>>

BytesV == <<86>>

BytesS == <<83>>

\* lines 23-26: the document the payload bytes decode and parse to
PayloadDoc(xmp_payload) ==
    CASE xmp_payload = BytesG -> DocG
      [] xmp_payload = BytesH -> DocH
      [] xmp_payload = BytesV -> DocV
      [] xmp_payload = BytesS -> DocS
      [] OTHER -> NotXml

\* lines 177-179 with the test of line 177 left out
UpdateMetadata_always(current, parsed_meta) == parsed_meta

\* lines 177-179: the metadata kept after one parsed segment
UpdateMetadata(current, parsed_meta) ==
    IF ~IsEmpty(parsed_meta) THEN parsed_meta ELSE current

\* line 174
HasSig(segment_data) == Find(segment_data, <<0>>, 0, Len(segment_data)) # -1

\* lines 173-176: the payloads handed to parse_gain_map_metadata
XmpPayloads(segments) ==
    LET sigs == SelectSeq(segments, HasSig)
    IN  [ k \in 1 .. Len(sigs) |->
            Slice(sigs[k], Find(sigs[k], <<0>>, 0, Len(sigs[k])) + 1, Len(sigs[k])) ]

RECURSIVE ScanSegments(_, _)
\* lines 170-179: gain_map_metadata after the loop over the XMP payloads
ScanSegments(payloads, current) ==
    IF payloads = <<>> THEN current
    ELSE ScanSegments(Tail(payloads),
                      UpdateMetadata(current,
                                     parse_gain_map_metadata(PayloadDoc(Head(payloads))).val))

\* the calls of parse_gain_map_metadata the loop of lines 170-179 makes
ParseCalls(payloads) ==
    [ k \in 1 .. Len(payloads) |->
        [ xmp |-> PayloadDoc(payloads[k]),
          res |-> parse_gain_map_metadata(PayloadDoc(payloads[k])).val ] ]

\* what Image.open and np.array do with a sub-stream: an image, or an error
\* of the OSError family (IOError is OSError)
DecodeOutcomes == {"ok", "OSError"}

\* the exceptions the handler of line 183 catches, were it absent
CaughtByScan_none == {}

\* the exceptions the handler of line 183 catches
CaughtByScan == {"OSError"}

\* line 191
IsUltraHdr(images, metadata) == Len(images) >= 2 /\ ~IsEmpty(metadata)

\* an APP1 segment: marker, two length bytes, payload
App1(payload) == app1_marker \o <<0, Len(payload) + 2>> \o payload

\* the byte strings files are put together from: a bare stream; streams
\* whose XMP segment carries gain-map metadata; a stream with a segment
\* without signature and segments whose packets are accepted and refused; a
\* stream whose segment embeds a thumbnail stream; a lone SOI; a lone EOI
J == start_marker \o end_marker

JG == start_marker \o App1(<<0>> \o BytesG) \o end_marker

JH == start_marker \o App1(<<0>> \o BytesH) \o end_marker

JM ==
    start_marker \o App1(BytesG) \o App1(<<0>> \o BytesG) \o App1(<<0>> \o BytesV)
                 \o App1(<<0>> \o BytesS) \o end_marker

JT == start_marker \o App1(<<0>> \o start_marker \o end_marker) \o end_marker

Pieces == {J, JG, JH, JM, JT, start_marker, end_marker}

\* the most pieces a file is put together from
MaxPieces == 3

RECURSIVE Concat(_)
Concat(seqs) == IF seqs = <<>> THEN <<>> ELSE Head(seqs) \o Concat(Tail(seqs))

RECURSIVE SeqsUpTo(_, _)
SeqsUpTo(S, n) ==
    IF n = 0 THEN {<<>>}
    ELSE LET shorter == SeqsUpTo(S, n - 1)
         IN  shorter \cup {Append(q, x) : q \in shorter, x \in S}

ScanInit ==
    /\ OthersIdle("scan")
    /\ s_pc = "scan"
    /\ s_pieces \in SeqsUpTo(Pieces, MaxPieces)
    /\ s_data = Concat(s_pieces)
    /\ search_offset = 0
    /\ extracted_images = <<>>
    /\ gain_map_metadata = EmptyDict
    /\ s_streams = <<>>
    /\ s_ranges = <<>>
    /\ s_parsed = <<>>
    /\ s_res = Returned(EmptyDict)

\* lines 152-187: one iteration of the while loop, or its break
ScanIteration ==
    /\ s_pc = "scan"
    /\ LET soi_pos == Find(s_data, start_marker, search_offset, Len(s_data))
           eoi_pos == IF soi_pos = -1 THEN -1
                      ELSE Find(s_data, end_marker, soi_pos + 2, Len(s_data))
           jpeg_data == Slice(s_data, soi_pos, eoi_pos + 2)
           payloads == XmpPayloads(extract_app_segments(jpeg_data).APP1)
       IN  IF soi_pos = -1 \/ eoi_pos = -1
           THEN /\ s_pc' = "finish"
                /\ UNCHANGED <<search_offset, extracted_images, gain_map_metadata,
                               s_streams, s_ranges, s_parsed, s_res>>
           ELSE \E outcome \in DecodeOutcomes :
                  /\ s_streams' = Append(s_streams, jpeg_data)
                  /\ s_ranges' = Append(s_ranges, [start |-> soi_pos, end |-> eoi_pos + 2])
                  /\ IF outcome = "ok"
                     THEN /\ gain_map_metadata' = ScanSegments(payloads, gain_map_metadata)
                          /\ s_parsed' = s_parsed \o ParseCalls(payloads)
                          /\ extracted_images' =
                                 Append(extracted_images,
                                        [array |-> jpeg_data, data |-> jpeg_data])
                          /\ search_offset' = eoi_pos + 2
                          /\ UNCHANGED <<s_pc, s_res>>
                     ELSE IF outcome \in CaughtByScan
                     THEN /\ search_offset' = eoi_pos + 2
                          /\ UNCHANGED <<s_pc, s_res, extracted_images,
                                         gain_map_metadata, s_parsed>>
                     ELSE /\ s_pc' = "raised"
                          /\ s_res' = Raised(outcome)
                          /\ UNCHANGED <<search_offset, extracted_images,
                                         gain_map_metadata, s_parsed>>
    /\ UNCHANGED <<s_pieces, s_data, s_others>>

\* lines 189-221: the result
Finish ==
    /\ s_pc = "finish"
    /\ s_pc' = "done"
    /\ s_res' =
         IF IsUltraHdr(extracted_images, gain_map_metadata)
         THEN Returned([ primary_image |-> extracted_images[1].array,
                         gain_map |-> extracted_images[2].array,
                         gain_map_metadata |-> gain_map_metadata ])
         ELSE Returned(EmptyDict)
    /\ UNCHANGED <<s_pieces, s_data, search_offset, extracted_images, gain_map_metadata,
                   s_streams, s_ranges, s_parsed, s_others>>

ScanNext == ScanIteration \/ Finish

ScanSpec == ScanInit /\ [][ScanNext]_vars

\* the parser on its own and the scan that calls it
UltraHdrInit == MetaInit \/ ScanInit

UltraHdrNext == MetaNext \/ ScanNext

UltraHdrSpec == UltraHdrInit /\ [][UltraHdrNext]_vars

-----------------------------------------------------------------------------
(* C5 *)

RECURSIVE IsSegmentsThenEoi(_)
\* marker segments (FF, a marker byte of APP1 or APP2, a two-byte length that
\* counts itself, the payload) followed by the end-of-image marker
IsSegmentsThenEoi(bytes) ==
    \/ bytes = end_marker
    \/ /\ Len(bytes) >= 4
       /\ SubSeq(bytes, 1, 2) \in {app1_marker, app2_marker}
       /\ FromBytes(SubSeq(bytes, 3, 4)) >= 2
       /\ FromBytes(SubSeq(bytes, 3, 4)) + 2 <= Len(bytes)
       /\ IsSegmentsThenEoi(SubSeq(bytes, FromBytes(SubSeq(bytes, 3, 4)) + 3, Len(bytes)))

\* a well-formed JPEG stream: SOI, marker segments, EOI
IsWellFormedJpeg(bytes) ==
    /\ Len(bytes) >= 4
    /\ SubSeq(bytes, 1, 2) = start_marker
    /\ IsSegmentsThenEoi(SubSeq(bytes, 3, Len(bytes)))

TwoWellFormedStreams ==
    /\ Len(s_pieces) = 2
    /\ IsWellFormedJpeg(s_pieces[1])
    /\ IsWellFormedJpeg(s_pieces[2])

\* C5: for a buffer that is the concatenation of exactly two well-formed JPEG
\* streams, the scan of extract_ultrahdr_data produces exactly two
\* sub-streams, the first stream and the second stream, in file order.
C5_TwoStreams ==
    (s_pc = "done" /\ TwoWellFormedStreams) => s_streams = s_pieces

\* no EOI marker before the last two bytes of a stream
NoInteriorEoi(bytes) == Find(bytes, end_marker, 0, Len(bytes)) = Len(bytes) - 2

\* what the scan does do: streams without an interior EOI are cut out as they are
ScanCutsPlainStreams ==
    (s_pc = "done" /\ TwoWellFormedStreams
        /\ NoInteriorEoi(s_pieces[1]) /\ NoInteriorEoi(s_pieces[2]))
    => s_streams = s_pieces

-----------------------------------------------------------------------------
(* C6 *)

\* C6: extract_ultrahdr_data returns a non-empty result only when the buffer
\* holds exactly two decodable sub-images and gain-map metadata was recovered
\* from an application segment; every other buffer, one with more than two
\* decodable sub-images included, yields the empty result.
C6_ExactlyTwo ==
    (s_pc = "done" /\ ~IsEmpty(s_res.val)) =>
        /\ Len(extracted_images) = 2
        /\ ~IsEmpty(gain_map_metadata)

\* what the code does do: at least two decoded sub-images and metadata
ScanResultNeedsTwoAndMetadata ==
    s_pc = "done" =>
        /\ ~IsEmpty(s_res.val) <=>
               (Len(extracted_images) >= 2 /\ ~IsEmpty(gain_map_metadata))
        /\ ~IsEmpty(s_res.val) =>
               /\ s_res.val.primary_image = extracted_images[1].array
               /\ s_res.val.gain_map = extracted_images[2].array

-----------------------------------------------------------------------------
(* C7 *)

MarkerOffsets(bytes, marker) ==
    { q \in 0 .. (Len(bytes) - 2) : SubSeq(bytes, q + 1, q + 2) = marker }

\* an SOI, an EOI after it, and after that a second SOI and a second EOI
HasSecondPair(bytes) ==
    \E a \in MarkerOffsets(bytes, start_marker), b \in MarkerOffsets(bytes, end_marker),
       c \in MarkerOffsets(bytes, start_marker), d \in MarkerOffsets(bytes, end_marker) :
        a + 2 <= b /\ b + 2 <= c /\ c + 2 <= d

-----------------------------------------------------------------------------
(* C9 *)

AcceptedAsGainMap(xmp) ==
    /\ xmp.xml
    /\ xmp.descriptions # <<>>
    /\ \E k \in 1 .. Len(xmp.descriptions[1]) :
          /\ xmp.descriptions[1][k].ns = "hdrgm"
          /\ StartsWith(xmp.descriptions[1][k].name, GainMapPrefix)

SameDict(a, b) == IF IsEmpty(a) \/ IsEmpty(b) THEN IsEmpty(a) /\ IsEmpty(b) ELSE a = b

RECURSIVE LastNonEmpty(_)
\* the result of the last call that returned a non-empty result
LastNonEmpty(calls) ==
    IF calls = <<>> THEN EmptyDict
    ELSE IF ~IsEmpty(calls[Len(calls)].res) THEN calls[Len(calls)].res
    ELSE LastNonEmpty(SubSeq(calls, 1, Len(calls) - 1))

RECURSIVE PayloadCount(_)
\* the number of XMP payloads in the segments of the decoded sub-images
PayloadCount(images) ==
    IF images = <<>> THEN 0
    ELSE Len(XmpPayloads(extract_app_segments(Head(images).data).APP1))
         + PayloadCount(Tail(images))

\* C9: parse_gain_map_metadata returns a non-empty result only if a
\* gain-map-namespace attribute of the first rdf:Description has a local name
\* that starts with GainMap, and the empty result otherwise; in
\* extract_ultrahdr_data an empty result for one segment does not stop the
\* scan of the remaining segments and does not replace metadata already
\* recovered.
C9_GainMapPrefix ==
    /\ (m_pc = "done" /\ ~IsEmpty(m_res.val)) => AcceptedAsGainMap(m_xmp)
    /\ \A k \in 1 .. Len(s_parsed) :
          ~IsEmpty(s_parsed[k].res) => AcceptedAsGainMap(s_parsed[k].xmp)
    /\ Len(s_parsed) = PayloadCount(extracted_images)
    /\ SameDict(gain_map_metadata, LastNonEmpty(s_parsed))

\* the second stream's packets were accepted, refused, refused: all three
\* were parsed and the accepted metadata is in the result
C9_Witness ==
    /\ s_pc = "done"
    /\ s_pieces = <<J, JM>>
    /\ Len(s_parsed) = 3
    /\ ~IsEmpty(s_parsed[1].res)
    /\ IsEmpty(s_parsed[2].res)
    /\ IsEmpty(s_parsed[3].res)
    /\ ~IsEmpty(s_res.val)
    /\ s_res.val.gain_map_metadata = s_parsed[1].res

-----------------------------------------------------------------------------
(* extract_app_segments, one loop iteration at a time.                      *)

\* lines 96-115 with the scan given up at a segment that does not fit
SegmentStep_abort(jpeg_data, marker_bytes, offset, search_limit) ==
    LET pos == Find(jpeg_data, marker_bytes, offset, search_limit)
        payload_start_pos == pos + 4
        payload_length ==
            IF pos + 4 <= Len(jpeg_data)
            THEN FromBytes(Slice(jpeg_data, pos + 2, pos + 4)) - 2
            ELSE 0
        fits == /\ pos + 4 <= Len(jpeg_data)
                /\ payload_length > 0
                /\ payload_start_pos + payload_length <= Len(jpeg_data)
    IN  IF pos = -1 \/ ~fits
        THEN [more |-> FALSE, found |-> <<>>, offset |-> offset]
        ELSE [more |-> TRUE,
              found |-> << Slice(jpeg_data, payload_start_pos,
                                 payload_start_pos + payload_length) >>,
              offset |-> pos + Len(marker_bytes)]

\* lines 96-115 with the next search started at the marker found
SegmentStep_same_offset(jpeg_data, marker_bytes, offset, search_limit) ==
    LET pos == Find(jpeg_data, marker_bytes, offset, search_limit)
        payload_start_pos == pos + 4
        payload_length ==
            IF pos + 4 <= Len(jpeg_data)
            THEN FromBytes(Slice(jpeg_data, pos + 2, pos + 4)) - 2
            ELSE 0
        fits == /\ pos + 4 <= Len(jpeg_data)
                /\ payload_length > 0
                /\ payload_start_pos + payload_length <= Len(jpeg_data)
    IN  IF pos = -1
        THEN [more |-> FALSE, found |-> <<>>, offset |-> offset]
        ELSE [more |-> TRUE,
              found |-> IF fits
                        THEN << Slice(jpeg_data, payload_start_pos,
                                      payload_start_pos + payload_length) >>
                        ELSE <<>>,
              offset |-> pos]

\* lines 96-115 with the payload taken from the length bytes on
SegmentStep_length_bytes(jpeg_data, marker_bytes, offset, search_limit) ==
    LET pos == Find(jpeg_data, marker_bytes, offset, search_limit)
        payload_start_pos == pos + 2
        payload_length ==
            IF pos + 4 <= Len(jpeg_data)
            THEN FromBytes(Slice(jpeg_data, pos + 2, pos + 4)) - 2
            ELSE 0
        fits == /\ pos + 4 <= Len(jpeg_data)
                /\ payload_length > 0
                /\ payload_start_pos + payload_length <= Len(jpeg_data)
    IN  IF pos = -1
        THEN [more |-> FALSE, found |-> <<>>, offset |-> offset]
        ELSE [more |-> TRUE,
              found |-> IF fits
                        THEN << Slice(jpeg_data, payload_start_pos,
                                      payload_start_pos + payload_length) >>
                        ELSE <<>>,
              offset |-> pos + Len(marker_bytes)]

\* lines 96-115: one iteration of the while loop for one marker: whether the
\* loop goes on, the payload appended if any, and the next offset
SegmentStep(jpeg_data, marker_bytes, offset, search_limit) ==
    LET pos == Find(jpeg_data, marker_bytes, offset, search_limit)
        payload_start_pos == pos + 4
        payload_length ==
            IF pos + 4 <= Len(jpeg_data)
            THEN FromBytes(Slice(jpeg_data, pos + 2, pos + 4)) - 2
            ELSE 0
        fits == /\ pos + 4 <= Len(jpeg_data)
                /\ payload_length > 0
                /\ payload_start_pos + payload_length <= Len(jpeg_data)
    IN  IF pos = -1
        THEN [more |-> FALSE, found |-> <<>>, offset |-> offset]
        ELSE [more |-> TRUE,
              found |-> IF fits
                        THEN << Slice(jpeg_data, payload_start_pos,
                                      payload_start_pos + payload_length) >>
                        ELSE <<>>,
              offset |-> pos + Len(marker_bytes)]

\* a segment: marker, two length bytes, the bytes that follow them
Segment(marker_bytes, hi, lo, body) == marker_bytes \o <<hi, lo>> \o body

\* segments whose length field is right, with a payload
GoodSegments ==
    { Segment(app1_marker, 0, 3, <<1>>), Segment(app1_marker, 0, 4, <<2, 3>>),
      Segment(app2_marker, 0, 3, <<4>>) }

\* a segment whose length field is right, without payload
EmptySegment == Segment(app1_marker, 0, 2, <<>>)

\* segments whose declared length runs past the end of every buffer here
LongSegments ==
    { Segment(app1_marker, 0, 200, <<5>>), Segment(app2_marker, 127, 0, <<>>) }

\* a marker cut off after its first length byte
CutSegment == app1_marker \o <<0>>

\* an APP1 segment whose payload holds the bytes of an APP2 segment
NestedSegment == Segment(app1_marker, 0, 7, Segment(app2_marker, 0, 3, <<7>>))

HeaderPieces ==
    GoodSegments \cup LongSegments \cup {EmptySegment, CutSegment, NestedSegment}

\* what follows the header: nothing, EOI, or SOS with scan data that holds
\* the bytes of an APP1 segment, and EOI
Tails ==
    { <<>>, end_marker,
      sos_marker \o Segment(app1_marker, 0, 3, <<9>>) \o end_marker }

\* the most segments in a header
MaxSegments == 3

AppInit ==
    /\ OthersIdle("app")
    /\ a_pc = "start"
    /\ a_pieces \in SeqsUpTo(HeaderPieces, MaxSegments)
    /\ \E tail \in Tails : a_data = start_marker \o Concat(a_pieces) \o tail
    /\ a_limit = 0
    /\ a_offset = 0
    /\ a_segments = [APP1 |-> <<>>, APP2 |-> <<>>]

\* lines 82-93: the search limit, and the first marker's loop is entered
AppStart ==
    /\ a_pc = "start"
    /\ LET sos_pos == Find(a_data, sos_marker, 0, Len(a_data))
       IN  a_limit' = IF sos_pos # -1 THEN sos_pos ELSE Len(a_data)
    /\ a_offset' = 0
    /\ a_pc' = "APP1"
    /\ UNCHANGED <<a_pieces, a_data, a_segments, a_others>>

\* lines 94-115: one iteration of the while loop; at its break the for loop
\* goes to the next marker (line 93) or the function returns (line 117)
AppIteration ==
    /\ a_pc \in {"APP1", "APP2"}
    /\ LET marker_bytes == IF a_pc = "APP1" THEN app1_marker ELSE app2_marker
           step == SegmentStep(a_data, marker_bytes, a_offset, a_limit)
       IN  IF step.more
           THEN /\ a_segments' = [a_segments EXCEPT ![a_pc] = @ \o step.found]
                /\ a_offset' = step.offset
                /\ a_pc' = a_pc
           ELSE /\ a_segments' = a_segments
                /\ a_offset' = 0
                /\ a_pc' = IF a_pc = "APP1" THEN "APP2" ELSE "done"
    /\ UNCHANGED <<a_pieces, a_data, a_limit, a_others>>

AppNext == AppStart \/ AppIteration

AppSpec == AppInit /\ [][AppNext]_vars

\* the loop returns what the function computes
AppLoopIsFunction ==
    a_pc = "done" => a_segments = extract_app_segments(a_data)

-----------------------------------------------------------------------------
(* C11 *)

\* the declared length of a piece puts its payload past the end of the buffer
RunsPastEnd(piece, bytes) ==
    /\ Len(piece) >= 4
    /\ FromBytes(SubSeq(piece, 3, 4)) - 2 > Len(bytes)

\* a piece with a right length field and a payload
HasPayload(piece) ==
    /\ Len(piece) > 4
    /\ FromBytes(SubSeq(piece, 3, 4)) = Len(piece) - 2

SegmentType(piece) == IF SubSeq(piece, 1, 2) = app1_marker THEN "APP1" ELSE "APP2"

IsElement(x, seq) == \E k \in 1 .. Len(seq) : seq[k] = x

\* C11: a segment whose declared length puts its payload past the end of the
\* buffer is skipped on its own: extract_app_segments raises nothing, goes on
\* scanning, and returns every well-formed APP1/APP2 segment that lies after
\* the malformed one in the header region.
C11_MalformedSkipped ==
    /\ a_pc \in {"idle", "start", "APP1", "APP2", "done"}
    /\ a_pc = "done" =>
          \A j \in 1 .. Len(a_pieces), k \in 1 .. Len(a_pieces) :
              (j < k /\ RunsPastEnd(a_pieces[j], a_data) /\ HasPayload(a_pieces[k]))
              => IsElement(SubSeq(a_pieces[k], 5, Len(a_pieces[k])),
                           a_segments[SegmentType(a_pieces[k])])

\* a header of an overlong APP1 segment followed by two good ones has been
\* scanned, and both payloads returned
C11_Witness ==
    /\ a_pc = "done"
    /\ a_pieces = << Segment(app1_marker, 0, 200, <<5>>),
                     Segment(app1_marker, 0, 4, <<2, 3>>),
                     Segment(app2_marker, 0, 3, <<4>>) >>
    /\ a_segments = [APP1 |-> << <<2, 3>> >>, APP2 |-> << <<4>> >>]

-----------------------------------------------------------------------------
(* The handler registry and handler identification                         *)
(* (hdr_conversion/registry.py, converter.py, formats/heic_pq.py).  A      *)
(* stream is a sequence of four-byte words and positions count words.      *)

\* a format handler object: id tells the objects apart, magic is the set of
\* first words a handler that is not HeicPQHandler recognises
Handler(id, class, name, magic) == [id |-> id, class |-> class, name |-> name, magic |-> magic]

\* HeicPQHandler(): its name property returns "heic-pq"
HeicPQHandler(id) == Handler(id, "HeicPQHandler", "heic-pq", {})

\* stream.read(n) at a position: the words read
StreamRead(stream, pos, n) == SubSeq(stream, pos + 1, Min2(pos + n, Len(stream)))

HeicBrands == {"heic", "heix", "hevc", "hevx", "mif1"}

\* handler.identify(stream): the answer and the position the stream is left at
identify(handler, stream, pos) ==
    IF handler.class = "HeicPQHandler"
    THEN LET header == StreamRead(stream, pos, 3)
         IN  [ answer |-> ~(Len(header) < 3 \/ header[2] # "ftyp") /\ header[3] \in HeicBrands,
               pos |-> 0 ]
    ELSE LET header == StreamRead(stream, pos, 1)
         IN  [ answer |-> header # <<>> /\ header[1] \in handler.magic,
               pos |-> pos + Len(header) ]

\* a seek that leaves the stream where it is
seek_ignored(pos, offset) == pos

\* stream.seek(offset) on a stream at pos: the new position
seek(pos, offset) == offset

\* d[key] = value on a dict with a second key at the end, whatever was there
DictSet_append(d, key, value) ==
    LET IsOther(item) == item.key # key
    IN  Append(SelectSeq(d, IsOther), [key |-> key, value |-> value])

\* d[key] = value: a key the dict holds keeps its place, a new key goes last
DictSet(d, key, value) ==
    IF \E k \in 1 .. Len(d) : d[k].key = key
    THEN [ k \in 1 .. Len(d) |->
             IF d[k].key = key THEN [key |-> key, value |-> value] ELSE d[k] ]
    ELSE Append(d, [key |-> key, value |-> value])

\* d.values()
DictValues(d) == [k \in 1 .. Len(d) |-> d[k].value]

\* available_handlers(): a copy of the registry
available_handlers(registry) == registry

\* get_handler
get_handler(registry, name) ==
    IF \E k \in 1 .. Len(registry) : registry[k].key = name
    THEN Returned((CHOOSE item \in {registry[k] : k \in 1 .. Len(registry)} :
                       item.key = name).value)
    ELSE Raised("KeyError")

Streams ==
    { <<"size", "ftyp", "heic", "mdat">>, <<"size", "ftyp", "avif", "mdat">>,
      <<"size", "ftyp">>, <<"JFIF", "size", "ftyp", "mif1">>, <<>> }

HandlerNames == {"a", "b", "heic-pq"}

Magics == { {}, {"size"}, {"size", "JFIF"} }

\* the most calls of register_handler after the import of the registry
MaxRegistrations == 2

IdentifyInit ==
    /\ OthersIdle("identify")
    /\ HANDLERS = DictSet(<<>>, "heic-pq", HeicPQHandler(1))
    /\ r_log = <<HeicPQHandler(1)>>
    /\ i_pc = "start"
    /\ i_stream \in Streams
    /\ i_pos \in {0, 1}
    /\ original_pos = 0
    /\ i_handlers = <<>>
    /\ i_log = <<>>
    /\ i_next = 0
    /\ i_tried = <<>>
    /\ i_res = Returned(None)

\* register_handler(handler), at any time
RegisterHandler ==
    /\ Len(r_log) <= MaxRegistrations
    /\ \E name \in HandlerNames, magic \in Magics :
          LET handler == Handler(Len(r_log) + 1, "FormatHandler", name, magic)
          IN  /\ HANDLERS' = DictSet(HANDLERS, handler.name, handler)
              /\ r_log' = Append(r_log, handler)
    /\ UNCHANGED <<i_pc, i_stream, i_pos, original_pos, i_handlers, i_log, i_next,
                   i_tried, i_res, i_others>>

\* lines 43-44: the position is noted and the copy of the registry taken
IdentifyStart ==
    /\ i_pc = "start"
    /\ original_pos' = i_pos
    /\ i_handlers' = DictValues(available_handlers(HANDLERS))
    /\ i_log' = r_log
    /\ i_next' = 0
    /\ i_pc' = "loop"
    /\ UNCHANGED <<HANDLERS, r_log, i_stream, i_pos, i_tried, i_res, i_others>>

\* lines 44-50: one iteration of the for loop, or what follows the loop
IdentifyIteration ==
    /\ i_pc = "loop"
    /\ IF i_next < Len(i_handlers)
       THEN LET handler == i_handlers[i_next + 1]
                at == seek(i_pos, original_pos)
                r == identify(handler, i_stream, at)
            IN  /\ i_tried' = Append(i_tried, [handler |-> handler, pos |-> at])
                /\ i_next' = i_next + 1
                /\ IF r.answer
                   THEN /\ i_pos' = seek(r.pos, original_pos)
                        /\ i_res' = Returned(handler)
                        /\ i_pc' = "done"
                   ELSE /\ i_pos' = r.pos
                        /\ UNCHANGED <<i_res, i_pc>>
       ELSE /\ i_pos' = seek(i_pos, original_pos)
            /\ i_res' = Raised("Unable to identify handler for provided stream.")
            /\ i_pc' = "raised"
            /\ UNCHANGED <<i_tried, i_next>>
    /\ UNCHANGED <<HANDLERS, r_log, i_stream, original_pos, i_handlers, i_log, i_others>>

IdentifyNext == RegisterHandler \/ IdentifyStart \/ IdentifyIteration

IdentifySpec == IdentifyInit /\ [][IdentifyNext]_vars

-----------------------------------------------------------------------------
(* C12 *)

\* the handlers registered when the copy of the registry was taken: for
\* each name the handler of the last register_handler call under that name
RegisteredThen ==
    { i_log[k] : k \in { j \in 1 .. Len(i_log) :
                           \A l \in (j + 1) .. Len(i_log) : i_log[l].name # i_log[j].name } }

\* the number of the first register_handler call under a name
FirstRegistration(name) ==
    CHOOSE k \in 1 .. Len(i_log) :
        i_log[k].name = name /\ \A j \in 1 .. (k - 1) : i_log[j].name # name

Recognises(handler) == identify(handler, i_stream, original_pos).answer

\* the failure of identification: ValueError with the message of line 50
IsUnidentifiedFormat(res) == res.err = "Unable to identify handler for provided stream."

TriedHandlers == { i_tried[k].handler : k \in 1 .. Len(i_tried) }

\* C12: identification tries the registered handlers in registration order
\* and returns the first handler whose identify(stream) is true; when no
\* registered handler recognises the stream it fails with the
\* unidentified-format error.
C12_RegistrationOrder ==
    /\ \A j \in 1 .. Len(i_tried), k \in 1 .. Len(i_tried) :
          j < k => i_tried[j].handler.id < i_tried[k].handler.id
    /\ i_pc = "done" =>
          /\ i_res.val \in RegisteredThen
          /\ Recognises(i_res.val)
          /\ \A h \in RegisteredThen : Recognises(h) => i_res.val.id <= h.id
    /\ i_pc = "raised" =>
          /\ IsUnidentifiedFormat(i_res)
          /\ \A h \in RegisteredThen : ~Recognises(h)

\* C12 as the code has it: the handlers are tried in the order in which
\* their format names were first registered, a handler registered again
\* under a name taking the place of the one it replaces; the first handler
\* whose identify(stream) is true is returned, and when no registered
\* handler recognises the stream the call fails with the unidentified-format
\* error.
C12_NameOrder ==
    /\ TriedHandlers \subseteq RegisteredThen
    /\ \A j \in 1 .. Len(i_tried), k \in 1 .. Len(i_tried) :
          j < k => FirstRegistration(i_tried[j].handler.name)
                     < FirstRegistration(i_tried[k].handler.name)
    /\ i_pc = "done" =>
          /\ i_res.val \in RegisteredThen
          /\ Recognises(i_res.val)
          /\ \A h \in RegisteredThen :
                Recognises(h) => FirstRegistration(i_res.val.name) <= FirstRegistration(h.name)
    /\ i_pc = "raised" =>
          /\ IsUnidentifiedFormat(i_res)
          /\ TriedHandlers = RegisteredThen
          /\ \A h \in RegisteredThen : ~Recognises(h)

\* after registrations under heic-pq, a, heic-pq the handler registered
\* last was tried first and returned, though the handler registered under a
\* before it recognises the stream too
C12_Witness ==
    /\ i_pc = "done"
    /\ Len(i_log) = 3
    /\ i_log[2].name = "a"
    /\ i_log[3].name = "heic-pq"
    /\ Recognises(i_log[2])
    /\ i_res.val = i_log[3]
    /\ Len(i_tried) = 1

-----------------------------------------------------------------------------
(* Composer selection (hdr_conversion/converter.py).                       *)

\* _select_composer with the roles looked at before the hint
select_composer_roles_first(container, composer_hint) ==
    IF \E k \in 1 .. Len(container.images) : container.images[k].image_type = "gainmap"
    THEN "GainmapComposer"
    ELSE IF composer_hint.given /\ composer_hint.name = "gainmap" THEN "GainmapComposer"
    ELSE "SingleLayerComposer"

\* _select_composer: the class of the composer it returns
select_composer(container, composer_hint) ==
    IF composer_hint.given /\ composer_hint.name = "gainmap" THEN "GainmapComposer"
    ELSE IF composer_hint.given /\ composer_hint.name = "single-layer"
    THEN "SingleLayerComposer"
    ELSE IF \E k \in 1 .. Len(container.images) :
                container.images[k].image_type = "gainmap"
    THEN "GainmapComposer"
    ELSE "SingleLayerComposer"

\* ImageType
ImageTypes == {"sdr", "hdr", "gainmap"}

\* the most images in a container
MaxImages == 3

Containers ==
    { [images |-> [k \in 1 .. Len(types) |-> [image_type |-> types[k]]]] :
        types \in SeqsUpTo(ImageTypes, MaxImages) }

Hints == {NoHint, Hint("gainmap"), Hint("single-layer"), Hint("GAINMAP"), Hint("auto")}

ComposerInit ==
    /\ OthersIdle("composer")
    /\ c_pc = "start"
    /\ c_container \in Containers
    /\ c_entry = c_container
    /\ c_hint \in Hints
    /\ c_res = ""

\* a call _select_composer(c_container, c_hint)
SelectComposer ==
    /\ c_pc = "start"
    /\ c_res' = select_composer(c_container, c_hint)
    /\ c_pc' = "done"
    /\ UNCHANGED <<c_container, c_entry, c_hint, c_others>>

ComposerNext == SelectComposer

ComposerSpec == ComposerInit /\ [][ComposerNext]_vars

-----------------------------------------------------------------------------
(* C13 *)

\* the roles of the images of a container
Roles(container) == { container.images[k].image_type : k \in 1 .. Len(container.images) }

\* C13: _select_composer is a function of the container's image roles and
\* the hint: with a hint that names a composer that composer is returned
\* whatever the roles; with no hint the gain-map composer is returned if and
\* only if an image has role GAINMAP and the single-layer composer
\* otherwise; the container is left unchanged.
C13_ComposerSelection ==
    c_pc = "done" =>
        /\ c_hint = Hint("gainmap") => c_res = "GainmapComposer"
        /\ c_hint = Hint("single-layer") => c_res = "SingleLayerComposer"
        /\ c_hint = NoHint =>
              /\ c_res = "GainmapComposer" <=> "gainmap" \in Roles(c_entry)
              /\ c_res = "SingleLayerComposer" <=> "gainmap" \notin Roles(c_entry)
        /\ c_container = c_entry

\* the hint single-layer has overridden the GAINMAP role in the container
C13_Witness ==
    /\ c_pc = "done"
    /\ c_hint = Hint("single-layer")
    /\ "gainmap" \in Roles(c_entry)
    /\ c_res = "SingleLayerComposer"
    /\ c_container = c_entry

(***************************************************************************)
(* The ICC profile parser (exp/icc_inspect.py).  A profile is its sequence *)
(* of bytes; fixed-point numbers are kept as the raw signed 32-bit integer *)
(* read from the file (the value times 65536), the gamma of a one-entry    *)
(* curve as the raw 16-bit integer (the value times 256).                  *)
(***************************************************************************)

\* an array: absent (None), or its shape and its values in row-major order
NoArray == [present |-> FALSE, shape |-> <<>>, flat |-> <<>>]

Array(shape, flat) == [present |-> TRUE, shape |-> shape, flat |-> flat]

\* a trc dict: {} is TrcDict("", <<>>, ...); for a type parse does not know
\* the dict holds the signature alone
TrcDict(type, sig, gamma, function_type, params, values) ==
    [type |-> type, sig |-> sig, gamma |-> gamma, function_type |-> function_type,
     params |-> params, values |-> values]

EmptyTrcDict == TrcDict("", <<>>, 0, 0, <<>>, <<>>)

\* the four-byte signatures, as ASCII codes
Sig_rXYZ == <<114, 88, 89, 90>>

Sig_gXYZ == <<103, 88, 89, 90>>

Sig_bXYZ == <<98, 88, 89, 90>>

Sig_wtpt == <<119, 116, 112, 116>>

Sig_chad == <<99, 104, 97, 100>>

Sig_rTRC == <<114, 84, 82, 67>>

Sig_kTRC == <<107, 84, 82, 67>>

Sig_desc == <<100, 101, 115, 99>>

Sig_XYZ == <<88, 89, 90, 32>>

Sig_sf32 == <<115, 102, 51, 50>>

Sig_curv == <<99, 117, 114, 118>>

Sig_para == <<112, 97, 114, 97>>

\* struct.unpack on a slice shorter than the format raises struct.error
StructError == Raised("struct.error")

\* ByteReader.u32 (the profiles here keep what it reads below 2^31)
u32(bytes, offset) ==
    LET b == Slice(bytes, offset, offset + 4)
    IN  IF Len(b) < 4 THEN StructError
        ELSE Returned(((b[1] * 256 + b[2]) * 256 + b[3]) * 256 + b[4])

\* ByteReader.u16
u16(bytes, offset) ==
    LET b == Slice(bytes, offset, offset + 2)
    IN  IF Len(b) < 2 THEN StructError ELSE Returned(b[1] * 256 + b[2])

\* ByteReader.s15f16: the signed integer read, before the division by 65536
s15f16(bytes, offset) ==
    LET b  == Slice(bytes, offset, offset + 4)
        hi == IF b[1] >= 128 THEN b[1] - 256 ELSE b[1]
    IN  IF Len(b) < 4 THEN StructError
        ELSE Returned(((hi * 256 + b[2]) * 256 + b[3]) * 256 + b[4])

\* the character decode(errors="replace") puts for a byte that is not ASCII
ReplacementChar == 65533

\* ByteReader.ascii: the code points of the text
ascii(bytes, offset, length) ==
    LET b == Slice(bytes, offset, offset + length)
    IN  [k \in 1 .. Len(b) |-> IF b[k] >= 128 THEN ReplacementChar ELSE b[k]]

\* dict lookup: the value stored under a key the dict holds
DictGet(d, key) ==
    (CHOOSE item \in {d[k] : k \in 1 .. Len(d)} : item.key = key).value

HasKey(d, key) == \E k \in 1 .. Len(d) : d[k].key = key

RECURSIVE IndexLoop(_, _, _, _)
\* lines 116-122: the loop over the declared entries of the tag table
IndexLoop(bytes, count, offset, tags) ==
    IF count = 0 THEN Returned(tags)
    ELSE LET sig        == ascii(bytes, offset, 4)
             tag_offset == u32(bytes, offset + 4)
             tag_size   == u32(bytes, offset + 8)
         IN  IF tag_offset.err # "" THEN tag_offset
             ELSE IF tag_size.err # "" THEN tag_size
             ELSE IndexLoop(bytes, count - 1, offset + 12,
                            DictSet(tags, sig, [offset |-> tag_offset.val,
                                                size   |-> tag_size.val]))

\* ICCParser._index_tags
index_tags(bytes) ==
    LET count == u32(bytes, 128)
    IN  IF count.err # "" THEN count
        ELSE IndexLoop(bytes, count.val, 132, <<>>)

\* ICCParser.__init__ on the bytes read from the file
ICCParser(bytes) ==
    IF Len(bytes) < 128 THEN Raised("Invalid ICC file length")
    ELSE index_tags(bytes)

\* ICCParser._parse_header: the stripped texts, as code points
StripSpaces(s) ==
    LET Keep(k) == s[k] \notin {32, 9, 10, 11, 12, 13}
        ks      == {k \in 1 .. Len(s) : Keep(k)}
    IN  IF ks = {} THEN <<>>
        ELSE SubSeq(s, CHOOSE k \in ks : \A j \in ks : k <= j,
                       CHOOSE k \in ks : \A j \in ks : k >= j)

parse_header(bytes) ==
    [device_class |-> ascii(bytes, 12, 4),
     color_space  |-> StripSpaces(ascii(bytes, 16, 4)),
     pcs          |-> StripSpaces(ascii(bytes, 20, 4))]

\* ICCParser._get_tag_data: the slice of the tag, empty where the code
\* returns None (its callers test `not data` only)
get_tag_data(bytes, tags, tag) ==
    IF ~HasKey(tags, tag) THEN <<>>
    ELSE LET entry == DictGet(tags, tag)
         IN  Slice(bytes, entry.offset, entry.offset + entry.size)

\* ICCParser._read_xyz_tag
read_xyz_tag(bytes, tags, tag) ==
    LET tag_bytes == get_tag_data(bytes, tags, tag)
    IN  IF tag_bytes = <<>> \/ Slice(tag_bytes, 0, 4) # Sig_XYZ THEN Returned(NoArray)
        ELSE LET offset == DictGet(tags, tag).offset
                 x == s15f16(bytes, offset + 8)
                 y == s15f16(bytes, offset + 12)
                 z == s15f16(bytes, offset + 16)
             IN  IF x.err # "" THEN x
                 ELSE IF y.err # "" THEN y
                 ELSE IF z.err # "" THEN z
                 ELSE Returned(Array(<<3>>, <<x.val, y.val, z.val>>))

RECURSIVE Sf32Values(_, _, _, _)
\* lines 155-159: the values read while they lie inside the tag's slice
Sf32Values(bytes, start, last, i) ==
    IF i = 9 \/ start + i * 4 + 4 > last THEN <<>>
    ELSE <<s15f16(bytes, start + i * 4).val>> \o Sf32Values(bytes, start, last, i + 1)

\* line 161: arr.reshape(3, 3) if arr.size == 9 else arr
reshape(values) ==
    IF Len(values) = 9 THEN Array(<<3, 3>>, values) ELSE Array(<<Len(values)>>, values)

\* ICCParser._read_sf32_matrix
read_sf32_matrix(bytes, tags, tag) ==
    LET tag_bytes == get_tag_data(bytes, tags, tag)
    IN  IF tag_bytes = <<>> \/ Slice(tag_bytes, 0, 4) # Sig_sf32 THEN Returned(NoArray)
        ELSE LET offset == DictGet(tags, tag).offset
             IN  Returned(reshape(Sf32Values(bytes, offset + 8,
                                             offset + Len(tag_bytes), 0)))

\* bytes.decode("ascii", errors="ignore").strip("\x00")
DecodeIgnore(b) ==
    LET IsAscii(x) == x < 128
        t  == SelectSeq(b, IsAscii)
        ks == {k \in 1 .. Len(t) : t[k] # 0}
    IN  IF ks = {} THEN <<>>
        ELSE SubSeq(t, CHOOSE k \in ks : \A j \in ks : k <= j,
                       CHOOSE k \in ks : \A j \in ks : k >= j)

\* the text "Unknown"
Unknown == <<85, 110, 107, 110, 111, 119, 110>>

\* ICCParser._read_desc
read_desc(bytes, tags) ==
    LET tag_bytes == get_tag_data(bytes, tags, Sig_desc)
    IN  IF tag_bytes = <<>> THEN Returned(Unknown)
        ELSE LET count == u32(bytes, DictGet(tags, Sig_desc).offset + 8)
             IN  IF count.err # "" THEN count
                 ELSE Returned(DecodeIgnore(Slice(tag_bytes, 12, 12 + count.val)))

RECURSIVE ReadU16s(_, _, _)
\* lines 184-185: count 16-bit values from offset on
ReadU16s(bytes, offset, count) ==
    IF count = 0 THEN Returned(<<>>)
    ELSE LET v == u16(bytes, offset)
         IN  IF v.err # "" THEN v
             ELSE LET rest == ReadU16s(bytes, offset + 2, count - 1)
                  IN  IF rest.err # "" THEN rest ELSE Returned(<<v.val>> \o rest.val)

RECURSIVE ReadS15f16s(_, _, _)
\* lines 192-193: count fixed-point values from offset on
ReadS15f16s(bytes, offset, count) ==
    IF count = 0 THEN Returned(<<>>)
    ELSE LET v == s15f16(bytes, offset)
         IN  IF v.err # "" THEN v
             ELSE LET rest == ReadS15f16s(bytes, offset + 4, count - 1)
                  IN  IF rest.err # "" THEN rest ELSE Returned(<<v.val>> \o rest.val)

\* ICCParser._parse_trc
parse_trc(bytes, tags, tag) ==
    LET tag_bytes == get_tag_data(bytes, tags, tag)
        sig       == Slice(tag_bytes, 0, 4)
        offset    == DictGet(tags, tag).offset
    IN  IF tag_bytes = <<>> THEN Returned(EmptyTrcDict)
        ELSE IF \E k \in 1 .. Len(sig) : sig[k] >= 128 THEN Raised("UnicodeDecodeError")
        ELSE IF sig = Sig_curv
        THEN LET count == u32(bytes, offset + 8)
             IN  IF count.err # "" THEN count
                 ELSE IF count.val = 0
                 THEN Returned(TrcDict("Linear", <<>>, 0, 0, <<>>, <<>>))
                 ELSE IF count.val = 1
                 THEN LET gamma == u16(bytes, offset + 12)
                      IN  IF gamma.err # "" THEN gamma
                          ELSE Returned(TrcDict("Gamma", <<>>, gamma.val, 0, <<>>, <<>>))
                 ELSE LET points == ReadU16s(bytes, offset + 12, count.val)
                      IN  IF points.err # "" THEN points
                          ELSE Returned(TrcDict("Curve", <<>>, 0, 0, <<>>, points.val))
        ELSE IF sig = Sig_para
        THEN LET func_type == u16(bytes, offset + 8)
             IN  IF func_type.err # "" THEN func_type
                 ELSE LET param_count == <<1, 3, 4, 5, 7>>[Min2(func_type.val, 4) + 1]
                          params      == ReadS15f16s(bytes, offset + 12, param_count)
                      IN  IF params.err # "" THEN params
                          ELSE Returned(TrcDict("Parametric", <<>>, 0, func_type.val,
                                                params.val, <<>>))
        ELSE Returned(TrcDict("sig", sig, 0, 0, <<>>, <<>>))

\* np.column_stack of three vectors of three values: the 3x3 matrix whose
\* columns they are
column_stack(r, g, b) ==
    Array(<<3, 3>>, <<r.flat[1], g.flat[1], b.flat[1],
                      r.flat[2], g.flat[2], b.flat[2],
                      r.flat[3], g.flat[3], b.flat[3]>>)

\* ICCParser.parse: the tags are read in the order of lines 82-107, and the
\* first exception a read raises leaves parse
parse(bytes, tags) ==
    LET header == parse_header(bytes)
        r_xyz  == read_xyz_tag(bytes, tags, Sig_rXYZ)
        g_xyz  == read_xyz_tag(bytes, tags, Sig_gXYZ)
        b_xyz  == read_xyz_tag(bytes, tags, Sig_bXYZ)
        white_point == read_xyz_tag(bytes, tags, Sig_wtpt)
        chad   == read_sf32_matrix(bytes, tags, Sig_chad)
        r_trc  == parse_trc(bytes, tags, Sig_rTRC)
        trc    == IF r_trc.err = "" /\ r_trc.val = EmptyTrcDict
                  THEN parse_trc(bytes, tags, Sig_kTRC) ELSE r_trc
        desc   == read_desc(bytes, tags)
    IN  IF r_xyz.err # "" THEN r_xyz
        ELSE IF g_xyz.err # "" THEN g_xyz
        ELSE IF b_xyz.err # "" THEN b_xyz
        ELSE IF white_point.err # "" THEN white_point
        ELSE IF chad.err # "" THEN chad
        ELSE IF trc.err # "" THEN trc
        ELSE IF desc.err # "" THEN desc
        ELSE Returned(
               [desc              |-> desc.val,
                pcs               |-> header.pcs,
                color_space       |-> header.color_space,
                rgb_to_xyz_matrix |->
                    IF r_xyz.val.present /\ g_xyz.val.present /\ b_xyz.val.present
                    THEN column_stack(r_xyz.val, g_xyz.val, b_xyz.val) ELSE NoArray,
                chad_matrix       |-> chad.val,
                primaries         |-> [R |-> r_xyz.val, G |-> g_xyz.val, B |-> b_xyz.val],
                whitepoint        |-> white_point.val,
                trc_info          |-> trc.val])

(* Profiles: a 128-byte header, the tag count, the tag table and the tag   *)
(* bodies one after the other, then cut short by some bytes.               *)

Zeros(n) == [k \in 1 .. n |-> 0]

\* big-endian encodings of a number below 2^31
U32(n) == <<n \div 16777216, (n \div 65536) % 256, (n \div 256) % 256, n % 256>>

U16(n) == <<n \div 256, n % 256>>

\* the header of a display profile: class "mntr", colour space "RGB ", PCS "XYZ "
IccHeader ==
    Zeros(12) \o <<109, 110, 116, 114>> \o <<82, 71, 66, 32>> \o Sig_XYZ \o Zeros(104)

\* a table entry with its body; shift and grow are added to the offset and
\* the size the table declares for it
Tag(sig, body, shift, grow) == [sig |-> sig, body |-> body, shift |-> shift, grow |-> grow]

RECURSIVE TagTable(_, _)
TagTable(entries, offset) ==
    IF entries = <<>> THEN <<>>
    ELSE LET e == Head(entries)
         IN  e.sig \o U32(offset + e.shift) \o U32(Len(e.body) + e.grow)
               \o TagTable(Tail(entries), offset + Len(e.body))

RECURSIVE TagBodies(_)
TagBodies(entries) ==
    IF entries = <<>> THEN <<>> ELSE Head(entries).body \o TagBodies(Tail(entries))

\* the profile that declares `count` tags and holds these entries
ProfileBytes(count, entries) ==
    IccHeader \o U32(count) \o TagTable(entries, 132 + 12 * Len(entries))
              \o TagBodies(entries)

\* the bytes without the last n
CutEnd(bytes, n) == SubSeq(bytes, 1, Len(bytes) - Min2(n, Len(bytes)))

\* an XYZ body: 0.5, 1.0, 1.5
XyzBody == Sig_XYZ \o Zeros(4) \o U32(32768) \o U32(65536) \o U32(98304)

\* an sf32 body of n values: 1.0, -1.0, 3.0, 4.0, ...
Sf32Body(n) ==
    Sig_sf32 \o Zeros(4)
      \o Concat([k \in 1 .. n |-> IF k = 2 THEN <<255, 255, 0, 0>> ELSE U32(k * 65536)])

CurvBody(count, points) ==
    Sig_curv \o Zeros(4) \o U32(count) \o Concat([k \in 1 .. Len(points) |-> U16(points[k])])

ParaBody(func_type, params) ==
    Sig_para \o Zeros(4) \o U16(func_type) \o Zeros(2)
      \o Concat([k \in 1 .. Len(params) |-> U32(params[k])])

\* a body whose type signature is not ASCII
NonAsciiBody == <<255, 254, 114, 118>> \o Zeros(8)

\* a lut body, a type parse does not read
Mft2Body == <<109, 102, 116, 50>> \o Zeros(8)

\* "desc", the length 3 and the text "P3" with its terminator
DescBody == Sig_desc \o Zeros(4) \o U32(3) \o <<80, 51, 0>>

XyzTagSets ==
    { <<Tag(Sig_rXYZ, XyzBody, 0, 0), Tag(Sig_gXYZ, XyzBody, 0, 0),
        Tag(Sig_bXYZ, XyzBody, 0, 0), Tag(Sig_wtpt, XyzBody, 0, 0)>>,
      <<Tag(Sig_rXYZ, XyzBody, 0, 0), Tag(Sig_bXYZ, XyzBody, 0, 0)>>,
      <<Tag(Sig_rXYZ, Sf32Body(3), 0, 0), Tag(Sig_gXYZ, XyzBody, 0, 0),
        Tag(Sig_bXYZ, XyzBody, 0, 0)>>,
      <<Tag(Sig_rXYZ, XyzBody, 0, 0), Tag(Sig_gXYZ, XyzBody, 100000, 0),
        Tag(Sig_bXYZ, XyzBody, 0, 0)>>,
      <<>> }

\* the longest curve of the profiles
MaxPoints == 3

ChadTagSets ==
    { <<>>,
      <<Tag(Sig_chad, Sf32Body(9), 0, 0)>>,
      <<Tag(Sig_chad, Sf32Body(8), 0, 0)>>,
      <<Tag(Sig_chad, Sf32Body(0), 0, 0)>>,
      <<Tag(Sig_chad, XyzBody, 0, 0)>>,
      <<Tag(Sig_chad, Sf32Body(9), 0, 100000)>> }

TrcTagSets ==
    { <<>>,
      <<Tag(Sig_rTRC, CurvBody(0, <<>>), 0, 0)>>,
      <<Tag(Sig_rTRC, CurvBody(1, <<563>>), 0, 0)>>,
      <<Tag(Sig_rTRC, CurvBody(MaxPoints, [k \in 1 .. MaxPoints |-> k * 20000]), 0, 0)>>,
      <<Tag(Sig_rTRC, CurvBody(MaxPoints + 1, [k \in 1 .. MaxPoints |-> k * 20000]), 0, 0)>>,
      <<Tag(Sig_rTRC, ParaBody(0, <<144179>>), 0, 0)>>,
      <<Tag(Sig_rTRC, ParaBody(3, <<157286, 62119, 3417, 5072, 2651>>), 0, 0)>>,
      <<Tag(Sig_rTRC, NonAsciiBody, 0, 0)>>,
      <<Tag(Sig_rTRC, Mft2Body, 0, 0)>>,
      <<Tag(Sig_kTRC, CurvBody(1, <<563>>), 0, 0)>>,
      <<Tag(Sig_rTRC, CurvBody(0, <<>>), 100000, 0), Tag(Sig_kTRC, CurvBody(1, <<563>>), 0, 0)>> }

DescTagSets == { <<>>, <<Tag(Sig_desc, DescBody, 0, 0)>> }

\* the most bytes missing at the end of a profile, in 16-bit words
MaxCut == 2

\* profiles with a full tag table, whole or cut short
TaggedProfiles ==
    { CutEnd(ProfileBytes(Len(x \o c \o t \o d), x \o c \o t \o d), 2 * n) :
        x \in XyzTagSets, c \in ChadTagSets, t \in TrcTagSets, d \in DescTagSets,
        n \in 0 .. MaxCut }

\* files that end in the header, in the tag count or in the tag table
ShortProfiles ==
    LET entries == <<Tag(Sig_rXYZ, XyzBody, 0, 0), Tag(Sig_gXYZ, XyzBody, 0, 0)>>
        whole   == ProfileBytes(2, entries)
    IN  { SubSeq(whole, 1, n) : n \in {0, 1, 127, 128, 130, 131, 132, 140, 143, 144, 155} }
          \cup { ProfileBytes(n, entries) : n \in {0, 1, 3, 1000} }

IccInputs == TaggedProfiles \cup ShortProfiles

ParserInit ==
    /\ OthersIdle("parser")
    /\ p_pc = "new"
    /\ p_data \in IccInputs
    /\ p_tags = <<>>
    /\ p_res = Returned(None)

\* parser = ICCParser(path), for a file that exists
ConstructParser ==
    /\ p_pc = "new"
    /\ LET built == ICCParser(p_data)
       IN  IF built.err = ""
           THEN /\ p_pc' = "ready"
                /\ p_tags' = built.val
                /\ p_res' = p_res
           ELSE /\ p_pc' = "raised"
                /\ p_tags' = p_tags
                /\ p_res' = built
    /\ UNCHANGED <<p_data, p_others>>

\* parser.parse()
ParseProfile ==
    /\ p_pc = "ready"
    /\ p_pc' = "parsed"
    /\ p_res' = parse(p_data, p_tags)
    /\ UNCHANGED <<p_data, p_tags, p_others>>

ParserNext == ConstructParser \/ ParseProfile

ParserSpec == ParserInit /\ [][ParserNext]_vars

\* the tag count a profile of at least 132 bytes declares at offset 128
DeclaredTags(bytes) ==
    ((bytes[129] * 256 + bytes[130]) * 256 + bytes[131]) * 256 + bytes[132]

\* shorter than the header, or the tag count missing, or the tag table
\* running past the end of the data
IsMalformed(bytes) ==
    \/ Len(bytes) < 128
    \/ Len(bytes) < 132
    \/ 132 + 12 * DeclaredTags(bytes) > Len(bytes)

\* the format error of the parser: ValueError("Invalid ICC file length")
IsFormatError(res) == res.err = "Invalid ICC file length"

Constructed == p_pc \in {"ready", "parsed", "raised"}

\* Every malformed input leaves the constructor by an exception and no tag
\* index is produced, whatever the exception is.
MalformedNeverIndexed ==
    (Constructed /\ IsMalformed(p_data)) =>
        /\ p_pc = "raised"
        /\ p_res.err # ""
        /\ p_tags = <<>>

\* C14: ICCParser rejects with a format error every input shorter than the
\* 128-byte header and every input whose tag-count field at offset 128 is
\* missing or declares a tag table that runs past the end of the data; no
\* other kind of exception escapes and no tag index is produced.
C14_MalformedIsFormatError ==
    (Constructed /\ IsMalformed(p_data)) =>
        /\ p_pc = "raised"
        /\ IsFormatError(p_res)
        /\ p_tags = <<>>

\* Inputs shorter than the header are rejected with the format error.
ShortHeaderIsFormatError ==
    (Constructed /\ Len(p_data) < 128) => (p_pc = "raised" /\ IsFormatError(p_res))

\* absent, or a 3x3 matrix
AbsentOr3x3(a) == ~a.present \/ (a.shape = <<3, 3>> /\ Len(a.flat) = 9)

ProfileReturned == p_pc = "parsed" /\ p_res.err = ""

\* The colorant matrix of a returned profile is absent or 3x3, and absent
\* exactly when one of rXYZ, gXYZ, bXYZ was not read.
ColorantMatrixShape ==
    ProfileReturned =>
        /\ AbsentOr3x3(p_res.val.rgb_to_xyz_matrix)
        /\ p_res.val.rgb_to_xyz_matrix.present <=>
             \A c \in {"R", "G", "B"} : p_res.val.primaries[c].present

\* C15: in every ICCProfileData returned by parse, the colorant matrix and
\* the chromatic-adaptation matrix are each either absent or a 3x3 matrix,
\* also when one of rXYZ/gXYZ/bXYZ is missing and when the chad tag holds
\* fewer than nine values.
C15_MatricesAbsentOr3x3 ==
    ProfileReturned =>
        /\ AbsentOr3x3(p_res.val.rgb_to_xyz_matrix)
        /\ AbsentOr3x3(p_res.val.chad_matrix)

\* the slice the tag index gives for a tag; empty for a tag not indexed and
\* for an offset outside the data
TagSlice(sig) == get_tag_data(p_data, p_tags, sig)

\* a tag that is indexed but cannot be parsed as the type parse expects: the
\* type signature is wrong, or the body (cut by the end of the data) is
\* shorter than the type needs
XyzFails(sig) ==
    /\ HasKey(p_tags, sig)
    /\ \/ Slice(TagSlice(sig), 0, 4) # Sig_XYZ
       \/ Len(TagSlice(sig)) < 20

ChadFails ==
    /\ HasKey(p_tags, Sig_chad)
    /\ \/ Slice(TagSlice(Sig_chad), 0, 4) # Sig_sf32
       \/ Len(TagSlice(Sig_chad)) < 44

\* the curve tag parse reads: rTRC, or kTRC when rTRC is not there
CurveSig == IF TagSlice(Sig_rTRC) # <<>> THEN Sig_rTRC ELSE Sig_kTRC

\* the bytes a curve or parametric body needs for what it declares
CurveNeeds(b) ==
    IF Slice(b, 0, 4) = Sig_curv /\ Len(b) >= 12
    THEN LET count == ((b[9] * 256 + b[10]) * 256 + b[11]) * 256 + b[12]
         IN  12 + 2 * count
    ELSE IF Slice(b, 0, 4) = Sig_para /\ Len(b) >= 10
    THEN 12 + 4 * <<1, 3, 4, 5, 7>>[Min2(b[9] * 256 + b[10], 4) + 1]
    ELSE 12

CurveFails ==
    /\ HasKey(p_tags, CurveSig)
    /\ \/ Slice(TagSlice(CurveSig), 0, 4) \notin {Sig_curv, Sig_para}
       \/ Len(TagSlice(CurveSig)) < CurveNeeds(TagSlice(CurveSig))

DescFails ==
    /\ HasKey(p_tags, Sig_desc)
    /\ Len(TagSlice(Sig_desc)) < 12

SomeTagFails ==
    \/ \E sig \in {Sig_rXYZ, Sig_gXYZ, Sig_bXYZ, Sig_wtpt} : XyzFails(sig)
    \/ ChadFails
    \/ CurveFails
    \/ DescFails

\* C16: a failure to parse one individual tag (wrong type signature, offset
\* or size pointing outside the data, truncated tag body, curve tag whose
\* type signature is not ASCII) makes parse treat that tag as absent and
\* still return a profile record built from the remaining tags; it does not
\* abort the parse.
C16_TagFailureIsLocal ==
    (p_pc = "parsed" /\ SomeTagFails) =>
        /\ p_res.err = ""
        /\ XyzFails(Sig_rXYZ) => ~p_res.val.primaries["R"].present
        /\ XyzFails(Sig_gXYZ) => ~p_res.val.primaries["G"].present
        /\ XyzFails(Sig_bXYZ) => ~p_res.val.primaries["B"].present
        /\ XyzFails(Sig_wtpt) => ~p_res.val.whitepoint.present
        /\ ChadFails => ~p_res.val.chad_matrix.present
        /\ CurveFails => p_res.val.trc_info = EmptyTrcDict
        /\ DescFails => p_res.val.desc = Unknown

\* A tag whose type signature is wrong, or whose offset lies outside the
\* data, is treated as absent when it is an XYZ or a chad tag.
WrongSignatureIsAbsent ==
    ProfileReturned =>
        /\ \A c \in {"R", "G", "B"} :
             LET sig == CASE c = "R" -> Sig_rXYZ [] c = "G" -> Sig_gXYZ [] OTHER -> Sig_bXYZ
             IN  Slice(TagSlice(sig), 0, 4) # Sig_XYZ => ~p_res.val.primaries[c].present
        /\ Slice(TagSlice(Sig_chad), 0, 4) # Sig_sf32 => ~p_res.val.chad_matrix.present

\* parse leaves by an exception only when a tag fails.
AbortOnlyOnTagFailure ==
    (p_pc = "parsed" /\ p_res.err # "") => SomeTagFails

-----------------------------------------------------------------------------
(* Inputs of the gain-map decode.                                          *)

BaseShapes == {<<1, 1, 3>>, <<1, 2, 3>>, <<2, 2, 3>>}

\* the gain-map shapes tried with a baseline of h x w pixels: full
\* resolution or 1 x 1, with three channels, one channel or no channel axis
GainShapes(h, w) ==
    {<<h, w, 3>>, <<h, w, 1>>, <<h, w>>, <<1, 1, 3>>, <<1, 1, 1>>, <<1, 1>>}

U8Patterns == {"black", "grey", "white", "ramp"}

IdxSum(i) == i[1] + i[2] + (IF Len(i) > 2 THEN i[3] ELSE 0)

\* an 8-bit code value per index
U8Val(p, i) ==
    CASE p = "black" -> 0
      [] p = "grey"  -> 128
      [] p = "white" -> 255
      [] OTHER       -> 30 + 100 * i[1] + 50 * i[2] + (IF Len(i) > 2 THEN 25 * i[3] ELSE 0)

U8Image(shape, p) ==
    [dtype |-> "uint8", shape |-> shape, at |-> [i \in Idx(shape) |-> U8Val(p, i)]]

FloatPatterns == {"grey", "wide", "over"}

\* a float per index; "wide" and "over" leave the unit interval
FloatVal(p, i) ==
    CASE p = "grey" -> Norm255(128)
      [] p = "over" -> 3 * Half
      [] OTHER      -> (IdxSum(i) % 4) * Half - Half

FloatImage(shape, p) ==
    [dtype |-> "float", shape |-> shape, at |-> [i \in Idx(shape) |-> FloatVal(p, i)]]

\* a baseline already normalised to [0, 1], as to_alternate expects it
NormImage(shape, p) ==
    [dtype |-> "float", shape |-> shape,
     at |-> [i \in Idx(shape) |-> Norm255(U8Val(p, i))]]

Metadatas ==
    { [gainmap_min      |-> <<0, 0, 0>>,
       gainmap_max      |-> <<ONE, ONE, ONE>>,
       gainmap_gamma    |-> <<ONE, ONE, ONE>>,
       baseline_offset  |-> <<0, 0, 0>>,
       alternate_offset |-> <<0, 0, 0>>],
      [gainmap_min      |-> <<-ONE, 0, Half>>,
       gainmap_max      |-> <<2 * ONE, ONE, 3 * ONE>>,
       gainmap_gamma    |-> <<ONE, 2 * ONE, Half>>,
       baseline_offset  |-> <<Sixteenth, 0, Sixteenth>>,
       alternate_offset |-> <<0, Sixteenth, 2 * Sixteenth>>],
      [gainmap_min      |-> <<0>>,
       gainmap_max      |-> <<2 * ONE>>,
       gainmap_gamma    |-> <<2 * ONE>>,
       baseline_offset  |-> <<Sixteenth>>,
       alternate_offset |-> <<0>>] }

GainInit ==
    /\ OthersIdle("gain")
    /\ g_op = "none"
    /\ g_out = NpError
    /\ g_meta \in Metadatas
    /\ \E shape \in BaseShapes :
          \/ /\ g_base \in {U8Image(shape, p) : p \in U8Patterns}
             /\ \E gs \in GainShapes(shape[1], shape[2]) :
                   g_gain \in {U8Image(gs, p) : p \in U8Patterns}
          \/ /\ g_base \in {NormImage(shape, p) : p \in U8Patterns}
             /\ \E gs \in GainShapes(shape[1], shape[2]) :
                   g_gain \in {FloatImage(gs, p) : p \in FloatPatterns}

\* a call of gainmap_to_hdr on a GainmapImage of 8-bit arrays
GainmapToHdr ==
    /\ g_op = "none"
    /\ g_base.dtype = "uint8"
    /\ g_out' = gainmap_to_hdr([baseline |-> g_base, gainmap |-> g_gain,
                                 metadata |-> g_meta])
    /\ g_op' = "gainmap_to_hdr"
    /\ UNCHANGED <<g_base, g_gain, g_meta, g_others>>

\* a call of to_alternate on normalised float arrays
ToAlternate ==
    /\ g_op = "none"
    /\ g_base.dtype = "float"
    /\ g_out' = to_alternate(g_base, g_gain, g_meta)
    /\ g_op' = "to_alternate"
    /\ UNCHANGED <<g_base, g_gain, g_meta, g_others>>

GainNext == GainmapToHdr \/ ToAlternate

GainSpec == GainInit /\ [][GainNext]_vars

-----------------------------------------------------------------------------
(* C1.                                                                     *)

\* the metadata value of a field for colour channel c (0-based); a value of
\* length 1 is the value of every channel
MetaAt(t, c) == IF Len(t) = 1 THEN t[1] ELSE t[c + 1]

\* the normalised sample of an input array at index i
Sample01(A, i) == IF A.dtype = "uint8" THEN Norm255(A.at[i]) ELSE A.at[i]

\* the gain-map sample that belongs to pixel (y, x) and channel c of the
\* baseline: the gain map's own sample, or its only one when it is 1 x 1
GainSample(gain, i) ==
    Sample01(gain, <<IF gain.shape[1] = 1 THEN 0 ELSE i[1],
                     IF gain.shape[2] = 1 THEN 0 ELSE i[2], i[3]>>)

\* the decode formula of the specification, for one sample
DecodeFormula(g, b, c, md) ==
    LET g1 == FPow(Clip(g, 0, ONE), MetaAt(md.gainmap_gamma, c))
        g2 == FMul(g1, MetaAt(md.gainmap_max, c) - MetaAt(md.gainmap_min, c))
                + MetaAt(md.gainmap_min, c)
    IN  FMul(FExp2(g2), b + MetaAt(md.baseline_offset, c))
          - MetaAt(md.alternate_offset, c)

ThreeChannelGain == Len(g_gain.shape) = 3 /\ g_gain.shape[3] = 3

\* C1: after gainmap_to_hdr or to_alternate on a gain map that has a sample
\* per colour channel, the result has the baseline's shape and every sample
\* of it is 2^(clip(gain,0,1)^gamma * (max - min) + min) * (baseline +
\* baseline_offset) - alternate_offset, with the metadata of its channel.
C1_DecodeFormula ==
    (g_op \in {"gainmap_to_hdr", "to_alternate"} /\ ThreeChannelGain) =>
        /\ g_out.shape = g_base.shape
        /\ \A i \in Idx(g_base.shape) :
              g_out.at[i] = DecodeFormula(GainSample(g_gain, i), Sample01(g_base, i),
                                          i[3], g_meta)

\* the scenario of the specification: min 0, max 1, gamma 1, no offsets,
\* baseline 128/255 and gain 128/255 give about 1.417 * 0.502 = 0.711
C1_Witness ==
    /\ g_op = "gainmap_to_hdr" /\ ThreeChannelGain
    /\ g_meta.gainmap_gamma = <<ONE, ONE, ONE>>
    /\ g_base.at[<<0, 0, 0>>] = 128 /\ g_gain.at[<<0, 0, 0>>] = 128
    /\ Abs(g_out.at[<<0, 0, 0>>] * 1000 - 711 * ONE) <= 2 * ONE

-----------------------------------------------------------------------------
(* C17.                                                                    *)

\* a gain map with one sample per pixel: 2-D, or 3-D with one channel
SingleChannelGain == Len(g_gain.shape) = 2 \/ g_gain.shape[3] = 1

\* the sample of a single-channel gain map that belongs to pixel (y, x)
SingleSample(gain, i) ==
    LET y == IF gain.shape[1] = 1 THEN 0 ELSE i[1]
        x == IF gain.shape[2] = 1 THEN 0 ELSE i[2]
    IN  Sample01(gain, IF Len(gain.shape) = 2 THEN <<y, x>> ELSE <<y, x, 0>>)

\* the result has the baseline's height and width and three channels, and
\* every channel of a pixel is decoded from the pixel's one gain sample
BroadcastDecode ==
    /\ g_out.shape = <<g_base.shape[1], g_base.shape[2], 3>>
    /\ \A i \in Idx(g_out.shape) :
          g_out.at[i] = DecodeFormula(SingleSample(g_gain, i), Sample01(g_base, i),
                                      i[3], g_meta)

\* gainmap_to_hdr broadcasts a single-channel gain map to the three channels.
GainmapToHdrBroadcasts ==
    (g_op = "gainmap_to_hdr" /\ SingleChannelGain) => BroadcastDecode

\* to_alternate broadcasts a gain map of shape (h, w, 1) that needs no resize.
ToAlternateBroadcastsOneChannel ==
    (g_op = "to_alternate" /\ g_gain.shape = <<g_base.shape[1], g_base.shape[2], 1>>)
        => BroadcastDecode

\* C17: in every gain-map decode path a single-channel gain map (2-D, or 3-D
\* with one channel) is broadcast to all three colour channels and a
\* per-channel metadata value of length 1 is broadcast to all channels, so
\* that the reconstructed HDR image has the baseline's height and width and
\* three channels.
C17_SingleChannelBroadcast ==
    (g_op \in {"gainmap_to_hdr", "to_alternate"} /\ SingleChannelGain) => BroadcastDecode

-----------------------------------------------------------------------------
(* C18.                                                                    *)

\* the same value for the five fields
UniformMeta(t) ==
    [gainmap_min |-> t, gainmap_max |-> t, gainmap_gamma |-> t,
     baseline_offset |-> t, alternate_offset |-> t]

\* metadata that is present but inconsistent: a gamma that is not positive,
\* per-channel values of lengths 1 and 3 side by side, values of length 2
InconsistentMetadatas ==
    { [UniformMeta(<<ONE>>) EXCEPT !.gainmap_gamma = <<0>>],
      [UniformMeta(<<ONE, ONE, ONE>>) EXCEPT !.gainmap_gamma = <<ONE, 0, ONE>>],
      [UniformMeta(<<ONE, ONE, ONE>>) EXCEPT !.gainmap_min = <<0>>],
      [UniformMeta(<<ONE>>) EXCEPT !.gainmap_max = <<2 * ONE, ONE, ONE>>,
                                   !.baseline_offset = <<Sixteenth, 0, 0>>],
      UniformMeta(<<ONE, ONE>>),
      [UniformMeta(<<ONE, ONE, ONE>>) EXCEPT !.gainmap_max = <<ONE, ONE>>] }

FieldLengths(md) ==
    {Len(md.gainmap_min), Len(md.gainmap_max), Len(md.gainmap_gamma),
     Len(md.baseline_offset), Len(md.alternate_offset)}

IsInconsistent(md) ==
    \/ \E c \in 1 .. Len(md.gainmap_gamma) : md.gainmap_gamma[c] <= 0
    \/ Cardinality(FieldLengths(md)) > 1
    \/ \E n \in FieldLengths(md) : n \notin {1, 3}

\* the decode calls of GainSpec, on inconsistent metadata
BadMetaInit ==
    /\ OthersIdle("gain")
    /\ g_op = "none"
    /\ g_out = NpError
    /\ g_meta \in InconsistentMetadatas
    /\ \E shape \in BaseShapes :
          \/ /\ g_base \in {U8Image(shape, p) : p \in U8Patterns}
             /\ \E gs \in GainShapes(shape[1], shape[2]) :
                   g_gain \in {U8Image(gs, p) : p \in U8Patterns}
          \/ /\ g_base \in {NormImage(shape, p) : p \in U8Patterns}
             /\ \E gs \in GainShapes(shape[1], shape[2]) :
                   g_gain \in {FloatImage(gs, p) : p \in FloatPatterns}

BadMetaSpec == BadMetaInit /\ [][GainNext]_vars

\* C18: gain-map decode fails with ReconstructionError when the metadata is
\* present but internally inconsistent (a non-positive gamma, or per-channel
\* arrays whose lengths differ from one another or are neither 1 nor 3), and
\* in that case returns no HDR image.
C18_InconsistentMetadataFails ==
    (g_op \in {"gainmap_to_hdr", "to_alternate"} /\ IsInconsistent(g_meta)) =>
        IsError(g_out)

\* The decode fails (numpy's ValueError) on values of length 2 only: they
\* cannot be broadcast against three channels.
OnlyLengthTwoFails ==
    (g_op = "gainmap_to_hdr") => (IsError(g_out) <=> 2 \in FieldLengths(g_meta))

-----------------------------------------------------------------------------
(* The headroom decode of Apple gain maps (hdrconv/convert/apple.py and    *)
(* hdr_conversion/interpreters/gainmap.py).                                *)

RECURSIVE FPowN(_, _)
\* x ** n for a natural number n
FPowN(x, n) == IF n = 0 THEN ONE ELSE FMul(x, FPowN(x, n - 1))

RECURSIVE RootBin(_, _, _, _)
RootBin(x, n, lo, hi) ==
    IF hi - lo <= 1 THEN hi
    ELSE LET mid == (lo + hi) \div 2
         IN  IF FPowN(mid, n) >= x THEN RootBin(x, n, lo, mid) ELSE RootBin(x, n, mid, hi)

\* x ** (1/n) for 0 <= x <= 1: the least y whose n-th power reaches x
FRoot(x, n) == IF x <= 0 THEN 0 ELSE RootBin(x, n, 0, ONE)

\* np.power(x, 2.4) = x^2 * (x^2)^(1/5), 0 <= x <= 1
Power24(x) == FMul(FMul(x, x), FRoot(FMul(x, x), 5))

\* np.power(x, 1 / 0.45) = x^2 * (x^2)^(1/9), 0 <= x <= 1
Power045(x) == FMul(FMul(x, x), FRoot(FMul(x, x), 9))

\* a decimal constant n / d as a fixed-point number
Dec(n, d) == (n * ONE) \div d

\* np.where(x <= 0.08145, x / 4.5, np.power((x + 0.099) / 1.099, 1 / 0.45))
oetf_inverse_709(x) ==
    IF x <= Dec(8145, 100000) THEN FDiv(x, Dec(45, 10))
    ELSE Power045(FDiv(x + Dec(99, 1000), ONE + Dec(99, 1000)))

\* np.where(x <= 0.04045, x / 12.92, np.power((x + 0.055) / 1.055, 2.4))
eotf_srgb(x) ==
    IF x <= Dec(4045, 100000) THEN FDiv(x, Dec(1292, 100))
    ELSE Power24(FDiv(x + Dec(55, 1000), ONE + Dec(55, 1000)))

\* eotf_display_p3: the same curve with the threshold 0.0031308
eotf_display_p3(x) ==
    IF x <= Dec(31308, 10000000) THEN FDiv(x, Dec(1292, 100))
    ELSE Power24(FDiv(x + Dec(55, 1000), ONE + Dec(55, 1000)))

\* a transfer function applied to every sample, by name
Transfer(f, x) ==
    CASE f = "oetf_inverse_709" -> oetf_inverse_709(x)
      [] f = "eotf_srgb"        -> eotf_srgb(x)
      [] f = "eotf_display_p3"  -> eotf_display_p3(x)
      [] f = "clip_min0"        -> Max2(x, 0)

NpTransfer(f, A) ==
    IF IsError(A) THEN NpError
    ELSE [shape |-> A.shape, at |-> [i \in Idx(A.shape) |-> Transfer(f, A.at[i])]]

\* a Python float as a 0-d operand
NpScalar(x) == [shape |-> <<>>, at |-> [i \in {<<>>} |-> x]]

\* base * ((headroom - 1.0) * gain), the formula without its "1.0 +"
headroom_formula_no_one(base_linear, gain_linear, headroom) ==
    NpBin("mul", base_linear,
          NpBin("mul", NpScalar(headroom - ONE), NewAxis(gain_linear)))

\* base_linear * (1.0 + (headroom - 1.0) * gain_linear[..., np.newaxis])
headroom_formula(base_linear, gain_linear, headroom) ==
    NpBin("mul", base_linear,
          NpBin("add", NpScalar(ONE),
                NpBin("mul", NpScalar(headroom - ONE), NewAxis(gain_linear))))

\* np.squeeze of a gain map of shape (h, w) or (h, w, 1), h and w above 1
Squeeze(A) ==
    IF Len(A.shape) = 2 THEN A
    ELSE [shape |-> <<A.shape[1], A.shape[2]>>,
          at |-> [i \in Idx(<<A.shape[1], A.shape[2]>>) |-> A.at[<<i[1], i[2], 0>>]]]

\* apply_gain_map inside apple_heic_to_hdr (apple.py); the gain map is a
\* 2-D array and PIL's resize to the size it has returns its samples
apple_apply_gain_map(base_image, gain_map, headroom) ==
    LET h                 == base_image.shape[1]
        w                 == base_image.shape[2]
        gain_map_resized  == IF gain_map.shape # <<h, w>> THEN Resize(gain_map, h, w)
                             ELSE gain_map
        gain_map_norm     == NpMap("norm255", gain_map_resized)
        gain_map_linear   == NpMap("clip01", NpTransfer("oetf_inverse_709", gain_map_norm))
        base_image_norm   == NpMap("norm255", base_image)
        base_image_linear == NpMap("clip01", NpTransfer("eotf_srgb", base_image_norm))
        hdr_image_linear  == headroom_formula(base_image_linear, gain_map_linear, headroom)
    IN  NpTransfer("clip_min0", hdr_image_linear)

\* apply_gain_map of the gain-map composer (interpreters/gainmap.py), for
\* 8-bit images of more than one row and column
apply_gain_map(base_image, gain_map, headroom) ==
    LET resized_gain_map == NewAxis(Squeeze(gain_map))
        gain_map_norm    == NpMap("norm255", Squeeze(resized_gain_map))
        gain_map_linear  == NpTransfer("oetf_inverse_709", gain_map_norm)
        base_norm        == NpMap("norm255", base_image)
        base_linear      == NpTransfer("eotf_display_p3", base_norm)
    IN  headroom_formula(base_linear, gain_map_linear, headroom)

\* the largest number of rows and of columns of the images
MaxSide == 2

HeadroomShapes == {<<h, w>> : h \in 2 .. MaxSide, w \in 2 .. MaxSide} \cup {<<2, 3>>}

\* 8-bit code values per index: constant ones, a ramp over the linear and
\* the power segment of the curves, and a ramp that ends at 255
CodeVal(p, i) ==
    CASE p = "black" -> 0
      [] p = "grey"  -> 128
      [] p = "white" -> 255
      [] p = "low"   -> 5 + 8 * IdxSum(i)
      [] OTHER       -> 255 - 40 * IdxSum(i)

CodeImage(shape, p) ==
    [dtype |-> "uint8", shape |-> shape, at |-> [i \in Idx(shape) |-> CodeVal(p, i)]]

CodePatterns == {"black", "grey", "white", "low", "high"}

\* 1, 1.5, 2, 4 and the composer's default 6
Headrooms == {ONE, 3 * Half, 2 * ONE, 4 * ONE, 6 * ONE}

HeadroomInit ==
    /\ OthersIdle("headroom")
    /\ h_op = "none"
    /\ h_out = NpError
    /\ h_headroom \in Headrooms
    /\ \E s \in HeadroomShapes :
          /\ h_base \in {CodeImage(<<s[1], s[2], 3>>, p) : p \in CodePatterns}
          /\ h_gain \in {CodeImage(gs, p) : gs \in {s, <<s[1], s[2], 1>>, <<1, 1>>},
                                            p \in CodePatterns}

\* apple_heic_to_hdr on AppleHeicData with a 2-D gain map
AppleHeicToHdr ==
    /\ h_op = "none"
    /\ Len(h_gain.shape) = 2
    /\ h_out' = apple_apply_gain_map(h_base, h_gain, h_headroom)
    /\ h_op' = "apple"
    /\ UNCHANGED <<h_base, h_gain, h_headroom, h_others>>

\* GainmapComposer.compose: apply_gain_map on a gain map of the base's size
ComposeGainmap ==
    /\ h_op = "none"
    /\ <<h_gain.shape[1], h_gain.shape[2]>> = <<h_base.shape[1], h_base.shape[2]>>
    /\ h_out' = apply_gain_map(h_base, h_gain, h_headroom)
    /\ h_op' = "interpreter"
    /\ UNCHANGED <<h_base, h_gain, h_headroom, h_others>>

\* apply_gain_map of apple_heic/color_conversion.py: the gain map is a 2-D
\* array, resized to the base's size, and nothing is clipped
color_conversion_apply_gain_map(base_image, gain_map, headroom) ==
    LET h                 == base_image.shape[1]
        w                 == base_image.shape[2]
        gain_map_resized  == IF gain_map.shape # <<h, w>> THEN Resize(gain_map, h, w)
                             ELSE gain_map
        gain_map_norm     == NpMap("norm255", gain_map_resized)
        gain_map_linear   == NpTransfer("oetf_inverse_709", gain_map_norm)
        base_image_norm   == NpMap("norm255", base_image)
        base_image_linear == NpTransfer("eotf_display_p3", base_image_norm)
    IN  headroom_formula(base_image_linear, gain_map_linear, headroom)

\* the usage example of color_conversion.py: apply_gain_map on loaded arrays
ColorConversionApply ==
    /\ h_op = "none"
    /\ Len(h_gain.shape) = 2
    /\ h_out' = color_conversion_apply_gain_map(h_base, h_gain, h_headroom)
    /\ h_op' = "color_conversion"
    /\ UNCHANGED <<h_base, h_gain, h_headroom, h_others>>

HeadroomNext == AppleHeicToHdr \/ ComposeGainmap \/ ColorConversionApply

HeadroomSpec == HeadroomInit /\ [][HeadroomNext]_vars

\* the linearised baseline sample and the linearised gain sample of a pixel
LinearBase(i) ==
    IF h_op = "apple" THEN Clip01(eotf_srgb(Norm255(h_base.at[i])))
    ELSE eotf_display_p3(Norm255(h_base.at[i]))

GainCode(i) ==
    LET y == IF h_gain.shape[1] = 1 THEN 0 ELSE i[1]
        x == IF h_gain.shape[2] = 1 THEN 0 ELSE i[2]
    IN  h_gain.at[IF Len(h_gain.shape) = 2 THEN <<y, x>> ELSE <<y, x, 0>>]

LinearGain(i) ==
    IF h_op = "apple" THEN Clip01(oetf_inverse_709(Norm255(GainCode(i))))
    ELSE oetf_inverse_709(Norm255(GainCode(i)))

-----------------------------------------------------------------------------
(* The gain-map encode (hdrconv/convert.py, hdr_to_gainmap).  Logarithms   *)
(* are fixed-point numbers like every other float; the sums with epsilon   *)
(* are taken in millionths, where epsilon = 1e-6 is 1.                     *)

\* a fixed-point number in millionths: ONE = 255 * 32, so 10^6 / ONE = 6250 / 51
Micro(v) == (v * 6250) \div 51

RECURSIVE FloorLog2(_)
\* floor(log2(n)) of an integer n >= 1
FloorLog2(n) == IF n < 2 THEN 0 ELSE 1 + FloorLog2(n \div 2)

\* log2(m) for 1 <= m < 2: the inverse of Exp2Frac, exact at the quarters
Log2Frac(m) ==
    LET q   == ONE \div 4
        tab == <<ONE, 9704, 11540, 13723, 2 * ONE>>
        j   == CHOOSE j \in 1 .. 4 : tab[j] <= m /\ m < tab[j + 1]
    IN  (j - 1) * q + ((m - tab[j]) * q) \div (tab[j + 1] - tab[j])

\* log2(n) of an integer n >= 1
Log2Int(n) ==
    LET k == FloorLog2(n)
        m == IF k >= 13 THEN ((n \div Pow2(k - 13)) * ONE) \div Pow2(13)
             ELSE (n * ONE) \div Pow2(k)
    IN  k * ONE + Log2Frac(m)

\* np.log2(x + 1e-6) of a fixed-point number x >= 0
Log2Eps(x) == Log2Int(Micro(x) + 1) - Log2Int(1000000)

\* log2 of (hdr + epsilon) / (baseline + epsilon)
LogRatio(hdr_value, baseline_value) ==
    Log2Int(Micro(hdr_value) + 1) - Log2Int(Micro(baseline_value) + 1)

\* np.log2(np.clip(ratio, epsilon, 1000)); a ratio that is not positive is
\* clipped to epsilon
ClippedLogRatio(hdr_value, baseline_value) ==
    IF Micro(hdr_value) + 1 <= 0 THEN -Log2Int(1000000)
    ELSE Clip(LogRatio(hdr_value, baseline_value), -Log2Int(1000000), Log2Int(1000))

RECURSIVE SortIdx(_, _)
\* the samples of array A at the indices S, in increasing order
SortIdx(A, S) ==
    IF S = {} THEN <<>>
    ELSE LET i == CHOOSE i \in S : \A j \in S : A.at[i] <= A.at[j]
         IN  <<A.at[i]>> \o SortIdx(A, S \ {i})

\* np.percentile(a, q): linear interpolation between the two order
\* statistics around the position q / 100 * (N - 1) of the flattened array
percentile(A, q) ==
    LET sorted == SortIdx(A, Idx(A.shape))
        pos    == q * (Len(sorted) - 1)
        lo     == pos \div 100
        r      == pos % 100
    IN  IF r = 0 THEN sorted[lo + 1]
        ELSE sorted[lo + 1] + (r * (sorted[lo + 2] - sorted[lo + 1])) \div 100

\* np.clip(hdr / (1.0 + hdr) * 255, 0, 255).astype(np.uint8)
Reinhard(hdr_data) ==
    [dtype |-> "uint8", shape |-> hdr_data.shape,
     at |-> [i \in Idx(hdr_data.shape) |->
               Clip((hdr_data.at[i] * 255) \div (ONE + hdr_data.at[i]), 0, 255)]]

\* (gainmap_log - min) / (max - min + epsilon), clipped to [0, 1]; epsilon
\* keeps the quotient just below the exact one
NormaliseLog(x, lo, hi) ==
    IF x <= lo THEN 0
    ELSE IF x > hi THEN ONE
    ELSE IF ((x - lo) * ONE) % (hi - lo) = 0 THEN ((x - lo) * ONE) \div (hi - lo) - 1
    ELSE ((x - lo) * ONE) \div (hi - lo)

ArrayMax(A) == CHOOSE v \in {A.at[i] : i \in Idx(A.shape)} :
                   \A i \in Idx(A.shape) : A.at[i] <= v

\* hdr_to_gainmap(hdr, baseline, gamma), hdr["data"] and the baseline of
\* one shape
hdr_to_gainmap(hdr_data, baseline0, gamma) ==
    LET baseline      == IF baseline0.dtype = "none" THEN Reinhard(hdr_data) ELSE baseline0
        baseline_norm == NpMap("norm255", baseline)
        alt_headroom  == Log2Eps(ArrayMax(hdr_data))
        gainmap_log   == [shape |-> hdr_data.shape,
                          at |-> [i \in Idx(hdr_data.shape) |->
                                    ClippedLogRatio(hdr_data.at[i], baseline_norm.at[i])]]
        gainmap_min_val == percentile(gainmap_log, 1)
        gainmap_max_val == percentile(gainmap_log, 99)
        Norm(i)       == NormaliseLog(gainmap_log.at[i], gainmap_min_val, gainmap_max_val)
        Gamma(i)      == IF gamma # ONE THEN FPow(Norm(i), FDiv(ONE, gamma)) ELSE Norm(i)
        gainmap_uint8 == [dtype |-> "uint8", shape |-> hdr_data.shape,
                          at |-> [i \in Idx(hdr_data.shape) |-> (Gamma(i) * 255) \div ONE]]
    IN  [baseline |-> baseline,
         gainmap  |-> gainmap_uint8,
         metadata |->
           [minimum_version |-> 0, writer_version |-> 1,
            baseline_hdr_headroom |-> ONE, alternate_hdr_headroom |-> alt_headroom,
            is_multichannel |-> TRUE, use_base_colour_space |-> FALSE,
            gainmap_min      |-> <<gainmap_min_val, gainmap_min_val, gainmap_min_val>>,
            gainmap_max      |-> <<gainmap_max_val, gainmap_max_val, gainmap_max_val>>,
            gainmap_gamma    |-> <<gamma, gamma, gamma>>,
            baseline_offset  |-> <<0, 0, 0>>,
            alternate_offset |-> <<0, 0, 0>>]]

\* the most pixels of an HDR input
MaxPixels == 3

HdrShapes == {<<1, w, 3>> : w \in 1 .. MaxPixels} \cup {<<2, 2, 3>>}

\* linear HDR samples: constant images, a ramp over the channels and the
\* pixels, a dark image with one highlight, and an image with black pixels
HdrVal(p, i) ==
    CASE p = "grey"      -> Half
      [] p = "bright"    -> 4 * ONE
      [] p = "ramp"      -> Sixteenth + Half * (3 * (i[1] + i[2]) + i[3])
      [] p = "highlight" -> IF i = <<0, 0, 0>> THEN 8 * ONE ELSE Half
      [] OTHER           -> IF i[3] = 0 THEN 0 ELSE 2 * ONE

HdrImageOf(shape, p) == [shape |-> shape, at |-> [i \in Idx(shape) |-> HdrVal(p, i)]]

HdrPatterns == {"grey", "bright", "ramp", "highlight", "black"}

EncodeInit ==
    /\ OthersIdle("encode")
    /\ n_op = "none"
    /\ n_res = <<>>
    /\ n_gamma \in {ONE, 2 * ONE}
    /\ \E shape \in HdrShapes :
          /\ n_hdr \in {HdrImageOf(shape, p) : p \in HdrPatterns}
          /\ n_baseline \in {NoBaseline} \cup {U8Image(shape, p) : p \in U8Patterns}

HdrToGainmap ==
    /\ n_op = "none"
    /\ n_res' = hdr_to_gainmap(n_hdr, n_baseline, n_gamma)
    /\ n_op' = "hdr_to_gainmap"
    /\ UNCHANGED <<n_hdr, n_baseline, n_gamma, n_others>>

EncodeNext == HdrToGainmap

EncodeSpec == EncodeInit /\ [][EncodeNext]_vars

\* the baseline the encode works with, normalised
EncodeBaseline(i) == Norm255(n_res.baseline.at[i])

\* the per-sample log2 ratio (hdr + epsilon) / (baseline + epsilon)
LogRatios ==
    [shape |-> n_hdr.shape,
     at |-> [i \in Idx(n_hdr.shape) |-> LogRatio(n_hdr.at[i], EncodeBaseline(i))]]

ClippedLogRatios ==
    [shape |-> n_hdr.shape,
     at |-> [i \in Idx(n_hdr.shape) |-> ClippedLogRatio(n_hdr.at[i], EncodeBaseline(i))]]

DeclaredMin == n_res.metadata.gainmap_min[1]

DeclaredMax == n_res.metadata.gainmap_max[1]

InsideDeclared(A) ==
    Cardinality({i \in Idx(A.shape) : DeclaredMin <= A.at[i] /\ A.at[i] <= DeclaredMax})

Samples == Cardinality(Idx(n_hdr.shape))

\* C20: for every HDR input, hdr_to_gainmap declares gainmap_min and
\* gainmap_max as the 1st and the 99th percentile of the per-pixel log2 ratio
\* (hdr + epsilon) / (baseline + epsilon), so that at least 98% of the pixel
\* log-ratios lie inside the declared range [gainmap_min, gainmap_max].
C20_PercentileRange ==
    (n_op = "hdr_to_gainmap") =>
        /\ DeclaredMin = percentile(LogRatios, 1)
        /\ DeclaredMax = percentile(LogRatios, 99)
        /\ 100 * InsideDeclared(LogRatios) >= 98 * Samples

\* The declared range is that of the log-ratios clipped to [1e-6, 1000], the
\* same for the three channels, and of the clipped log-ratios at most
\* ceil((N - 1) / 100) lie below it and as many above it.
DeclaredRangeOfClipped ==
    (n_op = "hdr_to_gainmap") =>
        /\ DeclaredMin = percentile(ClippedLogRatios, 1)
        /\ DeclaredMax = percentile(ClippedLogRatios, 99)
        /\ DeclaredMin <= DeclaredMax
        /\ n_res.metadata.gainmap_min = <<DeclaredMin, DeclaredMin, DeclaredMin>>
        /\ n_res.metadata.gainmap_max = <<DeclaredMax, DeclaredMax, DeclaredMax>>
        /\ Cardinality({i \in Idx(n_hdr.shape) : ClippedLogRatios.at[i] < DeclaredMin})
             <= (Samples - 1 + 99) \div 100
        /\ Cardinality({i \in Idx(n_hdr.shape) : ClippedLogRatios.at[i] > DeclaredMax})
             <= (Samples - 1 + 99) \div 100

(***************************************************************************)
(* Round trip: gainmap_to_hdr, hdr_to_gainmap on its result, and           *)
(* gainmap_to_hdr on the re-encoded GainmapImage, whose metadata is the    *)
(* one hdr_to_gainmap returned.                                            *)
(***************************************************************************)

\* the GainmapImages decoded first: 8-bit baseline and gain map, the gain
\* map at full resolution with three channels or one sample
GainmapImages ==
    UNION { { [baseline |-> U8Image(shape, p), gainmap |-> U8Image(gs, q),
               metadata |-> md] :
                p \in U8Patterns, q \in U8Patterns, md \in Metadatas,
                gs \in {shape, <<1, 1>>} } : shape \in BaseShapes }

RoundTripInit ==
    /\ OthersIdle("roundtrip")
    /\ b_pc = "container"
    /\ b_container \in GainmapImages
    /\ b_hdr = NpError
    /\ b_encoded = <<>>
    /\ b_hdr2 = NpError

\* hdr = gainmap_to_hdr(container)
DecodeFirst ==
    /\ b_pc = "container"
    /\ b_hdr' = gainmap_to_hdr(b_container)
    /\ b_pc' = "decoded"
    /\ UNCHANGED <<b_container, b_encoded, b_hdr2, b_others>>

\* hdr_to_gainmap(hdr, baseline, gamma) on the decoded image: with the
\* container's baseline or none, and with gamma 1.0 (the default) or 2.0
Reencode ==
    /\ b_pc = "decoded"
    /\ \E baseline \in {NoBaseline, b_container.baseline}, gamma \in {ONE, 2 * ONE} :
          b_encoded' = hdr_to_gainmap(b_hdr, baseline, gamma)
    /\ b_pc' = "encoded"
    /\ UNCHANGED <<b_container, b_hdr, b_hdr2, b_others>>

\* gainmap_to_hdr(re-encoded container), its metadata untouched
DecodeAgain ==
    /\ b_pc = "encoded"
    /\ b_hdr2' = gainmap_to_hdr(b_encoded)
    /\ b_pc' = "redecoded"
    /\ UNCHANGED <<b_container, b_hdr, b_encoded, b_others>>

RoundTripNext == DecodeFirst \/ Reencode \/ DecodeAgain

RoundTripSpec == RoundTripInit /\ [][RoundTripNext]_vars

\* 1e-3
Tolerance == Dec(1, 1000)

\* every sample of the second decode within 1e-3 of the first
WithinTolerance ==
    \A i \in Idx(b_hdr.shape) : Abs(b_hdr2.at[i] - b_hdr.at[i]) <= Tolerance

\* C21: decoding with gainmap_to_hdr, re-encoding the result with
\* hdr_to_gainmap and decoding again gives samples that differ from the
\* first decode by at most 1e-3 each.
C21_RoundTripWithinTolerance ==
    b_pc = "redecoded" => WithinTolerance

\* what the round trip does keep: the shape of the decoded image, and the
\* baseline when the re-encoding is given the container's
RoundTripKeepsShape ==
    b_pc = "redecoded" =>
        /\ b_hdr2.shape = b_hdr.shape
        /\ b_encoded.gainmap.shape = b_hdr.shape
        /\ b_encoded.metadata.baseline_offset = <<0, 0, 0>>
        /\ b_encoded.metadata.alternate_offset = <<0, 0, 0>>

(***************************************************************************)
(* File handles of the read and write calls.  Every file is opened by a    *)
(* with statement; a step of a call either completes or raises, and an     *)
(* exception leaves every with-block the call is inside.                   *)
(***************************************************************************)

\* the most descriptors the process holds open before the call
MaxOther == 2

FileCalls ==
    {"decode_container(format_name)", "decode_container", "open_binary",
     "extract_ultrahdr_data", "extract_ultrahdr_data(save_to_files)",
     "read_22028_pq", "write_22028_pq"}

\* the steps of a call in order: "open" enters a with-block on a newly
\* opened file and "exit" leaves it; every other step is a call that may
\* raise
Steps(call) ==
    CASE call = "decode_container(format_name)" ->
           <<"get_handler", "open", "handler.read", "exit">>
      [] call = "decode_container" ->
           <<"open", "_identify_handler", "handler.read", "exit">>
      [] call = "open_binary" ->
           <<"open", "yield", "exit">>
      [] call = "extract_ultrahdr_data" ->
           <<"open", "f.read", "exit", "scan">>
      [] call = "extract_ultrahdr_data(save_to_files)" ->
           <<"open", "f.read", "exit", "os.makedirs", "scan",
             "open", "f.write", "exit", "open", "f.write", "exit",
             "open", "f.write", "exit">>
      [] call = "read_22028_pq" ->
           <<"open", "f.read", "exit", "avif_decode">>
      [] call = "write_22028_pq" ->
           <<"avif_encode", "open", "f.write", "exit">>

\* the descriptor open() returns: the lowest one not in use
NewDescriptor(open) == CHOOSE fd \in 0 .. Cardinality(open) : fd \notin open

\* the with statement closes nothing when left; the file stays open
with_exit_leak(open, fd) == open

\* leaving a with-block closes its file, on return and on an exception
with_exit(open, fd) == open \ {fd}

RECURSIVE Unwind(_, _)
\* an exception propagating out of the with-blocks in blocks, innermost
\* first
Unwind(open, blocks) ==
    IF blocks = <<>> THEN open
    ELSE Unwind(with_exit(open, blocks[Len(blocks)]), SubSeq(blocks, 1, Len(blocks) - 1))

FilesInit ==
    /\ OthersIdle("files")
    /\ f_call \in FileCalls
    /\ f_pc = 1
    /\ f_status = "running"
    /\ f_open \in SUBSET (0 .. MaxOther)
    /\ f_mine = {}
    /\ f_with = <<>>
    /\ f_exc = ""

CurrentStep == Steps(f_call)[f_pc]

\* the exception of the current step leaves the call
Raises ==
    /\ f_open' = Unwind(f_open, f_with)
    /\ f_with' = <<>>
    /\ f_status' = "raised"
    /\ f_exc' = CurrentStep
    /\ UNCHANGED <<f_call, f_pc, f_mine>>

\* with open(...) as f: the file is opened, or open raises
OpenFile ==
    /\ f_status = "running" /\ f_pc <= Len(Steps(f_call))
    /\ CurrentStep = "open"
    /\ \/ /\ f_open' = f_open \cup {NewDescriptor(f_open)}
          /\ f_mine' = f_mine \cup {NewDescriptor(f_open)}
          /\ f_with' = Append(f_with, NewDescriptor(f_open))
          /\ f_pc' = f_pc + 1
          /\ UNCHANGED <<f_call, f_status, f_exc>>
       \/ Raises
    /\ UNCHANGED f_others

\* a call made by the function: it returns, or it raises
CallStep ==
    /\ f_status = "running" /\ f_pc <= Len(Steps(f_call))
    /\ CurrentStep \notin {"open", "exit"}
    /\ \/ /\ f_pc' = f_pc + 1
          /\ UNCHANGED <<f_call, f_status, f_open, f_mine, f_with, f_exc>>
       \/ Raises
    /\ UNCHANGED f_others

\* the end of a with-block
ExitWith ==
    /\ f_status = "running" /\ f_pc <= Len(Steps(f_call))
    /\ CurrentStep = "exit"
    /\ f_open' = with_exit(f_open, f_with[Len(f_with)])
    /\ f_with' = SubSeq(f_with, 1, Len(f_with) - 1)
    /\ f_pc' = f_pc + 1
    /\ UNCHANGED <<f_call, f_status, f_mine, f_exc, f_others>>

\* the call returns
ReturnFromCall ==
    /\ f_status = "running" /\ f_pc > Len(Steps(f_call))
    /\ f_status' = "returned"
    /\ UNCHANGED <<f_call, f_pc, f_open, f_mine, f_with, f_exc, f_others>>

FilesNext == OpenFile \/ CallStep \/ ExitWith \/ ReturnFromCall

FilesSpec == FilesInit /\ [][FilesNext]_vars

\* C22: once a read or write call has returned or raised, no file handle
\* it opened is still open, whichever step raised.
C22_HandlesClosed ==
    f_status \in {"returned", "raised"} => f_mine \cap f_open = {}

\* decode_container has opened the file and identification raised
C22_Witness ==
    /\ f_status = "raised"
    /\ f_call = "decode_container"
    /\ f_exc = "_identify_handler"
    /\ f_mine # {}
    /\ f_mine \cap f_open = {}

\* a call holds at most one file open at a time, and only inside a with
HandlesAreScoped ==
    /\ Len(f_with) <= 1
    /\ f_mine \cap f_open = {f_with[k] : k \in 1 .. Len(f_with)}

(***************************************************************************)
(* Concurrent invocations: a decode_container call that has been entered   *)
(* and register_handler calls of other threads, in any order.              *)
(***************************************************************************)

RECURSIVE FirstIdentified(_, _, _, _)
\* the result of the loop of _identify_handler over the handlers from the
\* k-th on
FirstIdentified(handlers, stream, pos, k) ==
    IF k > Len(handlers)
    THEN Raised("Unable to identify handler for provided stream.")
    ELSE IF identify(handlers[k], stream, pos).answer THEN Returned(handlers[k])
    ELSE FirstIdentified(handlers, stream, pos, k + 1)

\* the registry when the call was entered: what the import registered
RegistryAtEntry == DictSet(<<>>, "heic-pq", HeicPQHandler(1))

IdentifyEnded == i_pc \in {"done", "raised"}

\* C23: the handler a decode_container call chooses, or its failure, is the
\* same under every interleaving with concurrent register_handler calls: it
\* is what the call gives when the registrations come after it.
C23_SameUnderEveryInterleaving ==
    IdentifyEnded =>
        i_res = FirstIdentified(DictValues(RegistryAtEntry), i_stream, original_pos, 1)

\* what does hold: the result is decided by the copy of the registry taken
\* at line 44; a registration after the copy changes nothing
CopyDecides ==
    IdentifyEnded => i_res = FirstIdentified(i_handlers, i_stream, original_pos, 1)

(***************************************************************************)
(* The byte ranges of the sub-streams extract_ultrahdr_data cuts out.      *)
(***************************************************************************)

\* the offset the search that found the k-th sub-stream started at
SearchedFrom(k) == IF k = 1 THEN 0 ELSE s_ranges[k - 1].end

\* C24: the sub-streams the scan finds are byte ranges of the file in
\* strictly increasing offset order that do not overlap; each begins at an
\* FFD8 and ends with the first FFD9 found at or after two bytes past that
\* start marker, and the search for the next one starts right after that
\* end marker.
C24_SubStreams ==
    /\ \A k \in 1 .. Len(s_ranges) :
          LET r == s_ranges[k]
          IN  /\ s_streams[k] = Slice(s_data, r.start, r.end)
              /\ Slice(s_data, r.start, r.start + 2) = start_marker
              /\ r.start + 2 <= r.end - 2
              /\ Slice(s_data, r.end - 2, r.end) = end_marker
              /\ \A q \in r.start + 2 .. r.end - 3 : Slice(s_data, q, q + 2) # end_marker
              /\ SearchedFrom(k) <= r.start
              /\ \A q \in SearchedFrom(k) .. r.start - 1 :
                    Slice(s_data, q, q + 2) # start_marker
              /\ k > 1 => s_ranges[k - 1].start < r.start
    /\ Len(s_streams) = Len(s_ranges)
    /\ search_offset = SearchedFrom(Len(s_ranges) + 1)

\* two sub-streams with bytes between them, the first one cut at an FFD9
\* that lies inside a segment
C24_Witness ==
    /\ s_pc = "done"
    /\ Len(s_ranges) >= 2
    /\ s_ranges[1].end < s_ranges[2].start
    /\ s_ranges[2].end < Len(s_data)

(***************************************************************************)
(* The payloads extract_app_segments returns.                              *)
(***************************************************************************)

MarkerOf(segment_type) == IF segment_type = "APP1" THEN app1_marker ELSE app2_marker

\* payload is what the segment whose marker is at pos declares: the marker
\* is of the type and lies before every FFDA, and the payload is the
\* declared length minus 2 bytes that follow the two length bytes
IsPayloadAt(payload, segment_type, pos) ==
    /\ Slice(a_data, pos, pos + 2) = MarkerOf(segment_type)
    /\ \A q \in MarkerOffsets(a_data, sos_marker) : pos + 2 <= q
    /\ Len(payload) = FromBytes(Slice(a_data, pos + 2, pos + 4)) - 2
    /\ payload = SubSeq(a_data, pos + 5, pos + 4 + Len(payload))

\* C25: every payload extract_app_segments returns is the payload of an
\* APP1 (FFE1) or APP2 (FFE2) segment whose marker lies before the first
\* FFDA: exactly the declared big-endian 16-bit length minus 2 bytes, taken
\* from the bytes after the two length bytes.
C25_PayloadsOfHeaderSegments ==
    \A segment_type \in {"APP1", "APP2"} :
        \A k \in 1 .. Len(a_segments[segment_type]) :
            \E pos \in 0 .. Len(a_data) - 4 :
                IsPayloadAt(a_segments[segment_type][k], segment_type, pos)

\* a header with an APP1 segment that holds the bytes of an APP2 segment,
\* followed by scan data that holds the bytes of an APP1 segment: the first
\* two payloads are returned, the one in the scan data is not
C25_Witness ==
    /\ a_pc = "done"
    /\ a_pieces = <<NestedSegment>>
    /\ MarkerOffsets(a_data, sos_marker) # {}
    /\ a_segments = [APP1 |-> << Segment(app2_marker, 0, 3, <<7>>) >>,
                     APP2 |-> << <<7>> >>]

(***************************************************************************)
(* The stream position over handler identification.                        *)
(***************************************************************************)

\* C26: handler identification leaves the stream where it found it: every
\* identify attempt starts from the entry position, and when a handler is
\* returned and when identification fails the position is the entry
\* position, however far identify has read or seeked.
C26_PositionRestored ==
    /\ \A k \in 1 .. Len(i_tried) : i_tried[k].pos = original_pos
    /\ IdentifyEnded => i_pos = original_pos

\* original_pos is the position at entry: _identify_handler notes it before
\* anything moves the stream, and never changes it
OriginalPosIsEntry ==
    [][ /\ i_pc = "start" => (i_pos' = i_pos /\ (i_pc' # "start" => original_pos' = i_pos))
        /\ i_pc # "start" => original_pos' = original_pos ]_vars

\* entered at position 1: HeicPQHandler left the stream at 0, a handler that
\* reads on left it at 2, and no handler recognised the stream
C26_Witness ==
    /\ i_pc = "raised"
    /\ original_pos = 1
    /\ i_pos = 1
    /\ Len(i_tried) = 2
    /\ i_tried[1].handler.class = "HeicPQHandler"
    /\ identify(i_tried[1].handler, i_stream, 1).pos = 0
    /\ identify(i_tried[2].handler, i_stream, 1).pos = 2

\* entered at position 1, and the second handler tried was returned
C26_ReturnReached ==
    /\ i_pc = "done"
    /\ original_pos = 1
    /\ i_pos = 1
    /\ Len(i_tried) = 2

(***************************************************************************)
(* The Ultra HDR decode, colour_convertion (img_input/ultrahdr.py), on the *)
(* metadata parse_gain_map_metadata returns.                               *)
(***************************************************************************)

N_Gamma == <<"G", "a", "m", "m", "a">>

N_gamma == <<"g", "a", "m", "m", "a">>

N_OffsetSDR == <<"O", "f", "f", "s", "e", "t", "S", "D", "R">>

N_OffsetHDR == <<"O", "f", "f", "s", "e", "t", "H", "D", "R">>

RECURSIVE Pow10(_)
Pow10(n) == IF n = 0 THEN 1 ELSE 10 * Pow10(n - 1)

\* the int or float of a metadata value as a fixed-point number
ToFixed(value) ==
    IF value.e >= 0 THEN value.n * Pow10(value.e) * ONE
    ELSE (value.n * ONE) \div Pow10(-value.e)

\* metadata.get(key, default)
DictGetDefault(metadata, key, default) ==
    IF key \in DOMAIN metadata THEN ToFixed(metadata[key]) ELSE default

\* colour_convertion(major, gainmap, metadata)
colour_convertion(major, gainmap, metadata) ==
    LET major_width  == major.shape[2]
        major_height == major.shape[1]
        major1   == NpTransfer("eotf_srgb", NpMap("norm255", major))
        gainmap1 == Resize(NpMap("norm255", gainmap), major_height, major_width)
        gainmap2 == IF Len(gainmap1.shape) = 2 THEN Repeat3(NewAxis(gainmap1))
                    ELSE IF gainmap1.shape[3] = 1 THEN Repeat3(gainmap1)
                    ELSE gainmap1
        gamma       == DictGetDefault(metadata, N_gamma, ONE)
        offset_sdr  == DictGetDefault(metadata, N_OffsetSDR, 0)
        offset_hdr  == DictGetDefault(metadata, N_OffsetHDR, 0)
        gainmap_min == DictGetDefault(metadata, N_GainMapMin, 0)
        gainmap_max == DictGetDefault(metadata, N_GainMapMax, ONE)
        gainmap_degamma  == NpBin("pow", gainmap2, NpScalar(FDiv(ONE, gamma)))
        gainmap_remapped == NpBin("add",
                                  NpBin("mul", gainmap_degamma,
                                        NpScalar(gainmap_max - gainmap_min)),
                                  NpScalar(gainmap_min))
        gainmap_final    == NpMap("exp2", gainmap_remapped)
    IN  NpBin("sub",
              NpBin("mul", gainmap_final, NpBin("add", major1, NpScalar(offset_sdr))),
              NpScalar(offset_hdr))

\* the attributes a packet may carry besides hdrgm:GainMapMax
OptionalAttrs ==
    << {Attr("hdrgm", N_GainMapMin, <<"0">>), Attr("hdrgm", N_GainMapMin, <<"-", "1">>)},
       {Attr("hdrgm", N_Gamma, <<"1">>), Attr("hdrgm", N_Gamma, <<"2">>),
        Attr("hdrgm", N_gamma, <<"2">>)},
       {Attr("hdrgm", N_OffsetSDR, <<"0", ".", "0", "6", "2", "5">>)},
       {Attr("hdrgm", N_OffsetHDR, <<"0", ".", "0", "6", "2", "5">>)} >>

RECURSIVE AttrChoices(_)
\* the attribute lists that take at most one attribute of each set from the
\* k-th on
AttrChoices(k) ==
    IF k > Len(OptionalAttrs) THEN {<<>>}
    ELSE LET rest == AttrChoices(k + 1)
         IN  rest \cup {<<a>> \o r : a \in OptionalAttrs[k], r \in rest}

GainMapPackets ==
    { Xmp(TRUE, << <<Attr("hdrgm", N_GainMapMax, v)>> \o attrs >>) :
        v \in {<<"1">>, <<"2">>}, attrs \in AttrChoices(1) }

ColourInit ==
    /\ OthersIdle("colour")
    /\ u_op = "none"
    /\ \E shape \in {<<1, 1, 3>>, <<1, 2, 3>>} :
          /\ u_major \in {U8Image(shape, p) : p \in U8Patterns}
          /\ \E gs \in {shape, <<1, 1>>} :
                u_gainmap \in {U8Image(gs, p) : p \in {"grey", "ramp"}}
    /\ u_xmp \in GainMapPackets
    /\ u_metadata = EmptyDict
    /\ u_out = NpError

\* parse_gain_map_metadata on the packet of the gain-map stream
ParsePacket ==
    /\ u_op = "none"
    /\ u_metadata' = parse_gain_map_metadata(u_xmp).val
    /\ u_op' = "parsed"
    /\ UNCHANGED <<u_major, u_gainmap, u_xmp, u_out, u_others>>

\* colour_convertion on the two images and the parsed metadata
ColourConvertion ==
    /\ u_op = "parsed"
    /\ u_out' = colour_convertion(u_major, u_gainmap, u_metadata)
    /\ u_op' = "colour_convertion"
    /\ UNCHANGED <<u_major, u_gainmap, u_xmp, u_metadata, u_others>>

ColourNext == ParsePacket \/ ColourConvertion

ColourSpec == ColourInit /\ [][ColourNext]_vars

\* the ISO metadata equal to the parsed metadata: GainMapMin, GainMapMax,
\* Gamma, OffsetSDR and OffsetHDR for all channels
IsoMetadata(metadata) ==
    [gainmap_min      |-> <<DictGetDefault(metadata, N_GainMapMin, 0)>>,
     gainmap_max      |-> <<DictGetDefault(metadata, N_GainMapMax, ONE)>>,
     gainmap_gamma    |-> <<DictGetDefault(metadata, N_Gamma, ONE)>>,
     baseline_offset  |-> <<DictGetDefault(metadata, N_OffsetSDR, 0)>>,
     alternate_offset |-> <<DictGetDefault(metadata, N_OffsetHDR, 0)>>]

IsoDecode ==
    gainmap_to_hdr([baseline |-> u_major, gainmap |-> u_gainmap,
                    metadata |-> IsoMetadata(u_metadata)])

\* C27: colour_convertion follows the decode contract of the ISO path on
\* the GainMapMin, GainMapMax, Gamma, OffsetSDR and OffsetHDR values that
\* parse_gain_map_metadata decoded: for equal inputs and equal metadata it
\* returns the HDR samples gainmap_to_hdr returns.
C27_SameAsIsoDecode ==
    u_op = "colour_convertion" => u_out = IsoDecode

\* a primary image of code values 0 and 255 only, which the sRGB curve maps
\* to themselves
LinearIsIdentity ==
    \A i \in Idx(u_major.shape) : u_major.at[i] \in {0, 255}

\* what does hold: where the sRGB curve changes nothing and the gamma is 1,
\* the two decodes agree
SameAsIsoWithoutCurveAndGamma ==
    (u_op = "colour_convertion" /\ LinearIsIdentity
        /\ DictGetDefault(u_metadata, N_Gamma, ONE) = ONE
        /\ N_gamma \notin DOMAIN u_metadata)
    => u_out = IsoDecode

(***************************************************************************)
(* Termination of the two marker scans.  Each loop is sequential code: a   *)
(* step that can run does run, which is weak fairness of the step.         *)
(***************************************************************************)

MarkerScansInit == ScanInit \/ AppInit

MarkerScansNext == ScanNext \/ AppNext

\* the iteration of each loop can run exactly while its loop is entered
ScanLoopEntered == s_pc = "scan"

AppLoopEntered == a_pc \in {"APP1", "APP2"}

\* weak fairness of the four steps; for the two loop iterations ENABLED is
\* written as the predicate it equals
MarkerScansFairness ==
    /\ WF_vars(Finish)
    /\ WF_vars(AppStart)
    /\ []<>(~ScanLoopEntered) \/ []<><<ScanIteration>>_vars
    /\ []<>(~AppLoopEntered) \/ []<><<AppIteration>>_vars

MarkerScansSpec ==
    MarkerScansInit /\ [][MarkerScansNext]_vars /\ MarkerScansFairness

\* an FFD8 at or after the search offset and an FFD9 two bytes or more
\* after it
PairAhead ==
    \E a \in MarkerOffsets(s_data, start_marker), b \in MarkerOffsets(s_data, end_marker) :
        search_offset <= a /\ a + 2 <= b

\* an iteration of the loop of extract_ultrahdr_data that does not end the
\* loop moves the search offset on, and the loop ends at once when no
\* start marker or no matching end marker is ahead
ScanOffsetIncreases ==
    /\ (s_pc = "scan" /\ s_pc' = "scan") => search_offset' > search_offset
    /\ (s_pc = "scan" /\ ~PairAhead) => s_pc' = "finish"
    /\ (s_pc = "scan" /\ PairAhead) => s_pc' # "finish"
    /\ search_offset' <= Len(s_data)

\* an iteration of a loop of extract_app_segments that does not end the
\* loop moves the offset past the marker it found
AppOffsetIncreases ==
    (a_pc \in {"APP1", "APP2"} /\ a_pc' = a_pc) =>
        /\ a_offset' > a_offset
        /\ a_offset' - 2 \in MarkerOffsets(a_data, MarkerOf(a_pc))
        /\ a_offset' - 2 >= a_offset
        /\ a_offset' <= Len(a_data)

\* C28: both marker scans terminate on every finite buffer: the search
\* offset of extract_ultrahdr_data grows with every iteration and the loop
\* ends as soon as no start marker or no matching end marker is found; the
\* offset of extract_app_segments grows past every marker found, for each
\* marker type.
C28_ScansTerminate ==
    /\ [][ScanOffsetIncreases /\ AppOffsetIncreases]_vars
    /\ <>(s_pc \in {"idle", "done", "raised"})
    /\ <>(a_pc \in {"idle", "done"})

\* a file of three sub-streams: the loop ran three times and the scan ended
\* at the end of the buffer
C28_Witness ==
    /\ s_pc = "done"
    /\ Len(s_ranges) = 3
    /\ search_offset = Len(s_data)
    /\ a_pc = "idle"

\* extract_app_segments has returned from a header of three segments of
\* one marker type
C28_AppReturned ==
    /\ a_pc = "done"
    /\ Len(a_segments.APP1) = 3
    /\ s_pc = "idle"

(***************************************************************************)
(* The handler registry on its own (hdr_conversion/registry.py): the       *)
(* import of the module, then register_handler, get_handler and            *)
(* available_handlers calls in any order, and callers that modify the dict *)
(* available_handlers gave them.                                           *)
(***************************************************************************)

\* the variables of the components other than the registry and
\* _identify_handler, and the variables of _identify_handler other than the
\* registry's
registry_others ==
    <<gvars, tvars, evars, mvars, svars, avars, cvars, pvars, hvars, nvars, bvars, fvars,
      uvars>>

identify_rest ==
    <<i_pc, i_stream, i_pos, original_pos, i_handlers, i_log, i_next, i_tried, i_res>>

\* a dict object as a caller holds it: its items, and whether it is the
\* object _HANDLERS itself
DictObject(is_registry, items) ==
    [is_registry |-> is_registry, called |-> TRUE, modified |-> FALSE, items |-> items]

NoDict == [is_registry |-> FALSE, called |-> FALSE, modified |-> FALSE, items |-> <<>>]

\* the registry's own dict handed out
dict_alias(d) == DictObject(TRUE, d)

\* dict(_HANDLERS): a new dict with the same items
dict(d) == DictObject(FALSE, d)

\* del d[key]
DictDel(d, key) ==
    LET IsOther(item) == item.key # key
    IN  SelectSeq(d, IsOther)

LookupNames == HandlerNames \cup {"jpeg"}

RegistryInit ==
    /\ OthersIdle("registry")
    /\ r_pc = "import"
    /\ r_copy = NoDict
    /\ r_name = ""
    /\ r_seen = 0
    /\ r_got = Returned(None)

\* lines 29-33: the import of the module registers HeicPQHandler
RegisterDefaults ==
    /\ r_pc = "import"
    /\ HANDLERS' = DictSet(HANDLERS, "heic-pq", HeicPQHandler(1))
    /\ r_log' = Append(r_log, HeicPQHandler(1))
    /\ r_pc' = "ready"
    /\ UNCHANGED <<r_copy, r_name, r_seen, r_got, identify_rest, registry_others>>

\* register_handler(handler)
RegisterCall ==
    /\ r_pc = "ready"
    /\ RegisterHandler

\* get_handler(name)
GetHandlerCall ==
    /\ r_pc = "ready"
    /\ \E name \in LookupNames :
          /\ r_name' = name
          /\ r_got' = get_handler(HANDLERS, name)
    /\ r_seen' = Len(r_log)
    /\ UNCHANGED <<r_pc, r_copy, r_others>>

\* available_handlers()
AvailableHandlersCall ==
    /\ r_pc = "ready"
    /\ r_copy' = dict(available_handlers(HANDLERS))
    /\ UNCHANGED <<r_pc, r_name, r_seen, r_got, r_others>>

\* the caller assigns to a key of the dict it was given, or deletes one,
\* once; if that dict is _HANDLERS itself the registry changes with it
ModifyReturnedDict ==
    /\ r_pc = "ready"
    /\ r_copy.called
    /\ ~r_copy.modified
    /\ \E items \in { DictSet(r_copy.items, name, Handler(0, "FormatHandler", name, {})) :
                        name \in HandlerNames }
                    \cup { DictDel(r_copy.items, name) : name \in HandlerNames } :
          /\ items # r_copy.items
          /\ r_copy' = [r_copy EXCEPT !.items = items, !.modified = TRUE]
          /\ HANDLERS' = IF r_copy.is_registry THEN items ELSE HANDLERS
    /\ UNCHANGED <<r_pc, r_name, r_seen, r_got, r_log, identify_rest, registry_others>>

RegistryNext ==
    \/ RegisterDefaults
    \/ RegisterCall
    \/ GetHandlerCall
    \/ AvailableHandlersCall
    \/ ModifyReturnedDict

RegistrySpec == RegistryInit /\ [][RegistryNext]_vars

\* the handler most recently registered under name among the first n
\* registrations, or KeyError
MostRecent(name, n) ==
    LET calls == {k \in 1 .. n : r_log[k].name = name}
    IN  IF calls = {} THEN Raised("KeyError")
        ELSE Returned(r_log[CHOOSE k \in calls : \A j \in calls : j <= k])

SameResult(x, y) == x.err = y.err /\ (x.err = "" => x.val = y.val)

\* C29: after any sequence of register_handler calls the registry holds
\* exactly one handler per registered name; get_handler(n) returns the
\* handler most recently registered under n and raises KeyError when none
\* was; a modification of the dict available_handlers returned does not
\* change the registry.
C29_OneHandlerPerName ==
    /\ \A j \in 1 .. Len(HANDLERS), k \in 1 .. Len(HANDLERS) :
          HANDLERS[j].key = HANDLERS[k].key => j = k
    /\ {HANDLERS[k].key : k \in 1 .. Len(HANDLERS)} = {r_log[k].name : k \in 1 .. Len(r_log)}
    /\ \A name \in LookupNames :
          SameResult(get_handler(HANDLERS, name), MostRecent(name, Len(r_log)))
    /\ r_name # "" => SameResult(r_got, MostRecent(r_name, r_seen))

\* a handler was registered under heic-pq after the import, a caller has
\* deleted heic-pq from the dict available_handlers gave it, and get_handler has then
\* returned the handler registered last under heic-pq and raised KeyError
\* before that for a name never registered
C29_Witness ==
    /\ Len(r_log) = 3
    /\ r_log[2].name = "heic-pq"
    /\ r_log[3].name = "a"
    /\ r_copy.modified
    /\ Len(r_copy.items) = 1
    /\ r_copy.items[1].key = "a"
    /\ r_name = "heic-pq"
    /\ r_seen = 3
    /\ r_got.err = ""
    /\ r_got.val = r_log[2]

\* get_handler has raised KeyError
C29_KeyErrorReached ==
    /\ r_name = "jpeg"
    /\ r_got.err = "KeyError"

-----------------------------------------------------------------------------
(* The three implementations of the headroom reconstruction side by side.  *)

\* the branch of the piecewise curve a normalised base sample takes
BranchOf(threshold, x) == IF x <= threshold THEN "linear" ELSE "power"

\* np.where's condition in apple.py and in the two eotf_display_p3
AppleBranch(code) == BranchOf(Dec(4045, 100000), Norm255(code))

DisplayP3Branch(code) == BranchOf(Dec(31308, 10000000), Norm255(code))

\* all three functions take the inputs: a 2-D gain map of the base's size
AllThreeApply ==
    /\ h_op # "none"
    /\ h_gain.shape = <<h_base.shape[1], h_base.shape[2]>>

BaseCodes == {h_base.at[i] : i \in Idx(h_base.shape)}

\* C30: the three implementations of the Apple headroom reconstruction return
\* the same linear HDR samples for the same 8-bit base image, 8-bit gain map
\* and headroom, and every base code is linearised through the same branch
\* of the piecewise curve in all of them.
C30_SameHdrSample ==
    AllThreeApply =>
        /\ apple_apply_gain_map(h_base, h_gain, h_headroom)
              = apply_gain_map(h_base, h_gain, h_headroom)
        /\ color_conversion_apply_gain_map(h_base, h_gain, h_headroom)
              = apply_gain_map(h_base, h_gain, h_headroom)
        /\ \A code \in BaseCodes : AppleBranch(code) = DisplayP3Branch(code)

\* the two implementations with eotf_display_p3 agree on every input
DisplayP3ImplementationsAgree ==
    AllThreeApply =>
        color_conversion_apply_gain_map(h_base, h_gain, h_headroom)
          = apply_gain_map(h_base, h_gain, h_headroom)

\* apple.py agrees with them on a base without a code between the thresholds
AgreeOutsideThresholds ==
    (AllThreeApply /\ \A code \in BaseCodes : AppleBranch(code) = DisplayP3Branch(code)) =>
        apple_apply_gain_map(h_base, h_gain, h_headroom)
          = apply_gain_map(h_base, h_gain, h_headroom)

\* the codes the thresholds 0.0031308 and 0.04045 separate are 1 .. 10
BranchesDifferOn1To10 ==
    \A code \in BaseCodes : (AppleBranch(code) # DisplayP3Branch(code)) <=> code \in 1 .. 10

\* a base with code 5 decoded by apple.py: the other two return other samples
C30_Code5Decoded ==
    /\ AllThreeApply
    /\ h_op = "apple"
    /\ 5 \in BaseCodes
    /\ h_out # apply_gain_map(h_base, h_gain, h_headroom)

====
